---- MODULE Spec2Model ----
(***************************************************************************)
(* Verification model of the Prisma Client generator (TSClient.ts).        *)
(*                                                                         *)
(* Generated identifiers are sequences of tokens, so that the template     *)
(* ${name}Delegate   is name \o <<"Delegate">> and two identifiers are the *)
(* same text exactly when their token sequences are equal.  A rendered     *)
(* document is the structure of its declarations.  The payload type that   *)
(* the generator emits is kept as an equation and is evaluated on selector *)
(* types by the rules of TypeScript's conditional and mapped types.        *)
(***************************************************************************)
EXTENDS Integers, Sequences, FiniteSets, TLC

VARIABLES
    heap,        \* object store: reference -> DMMF.Document value
    dmmf,        \* per client: <<>> before construction, <<ref>> after (this.dmmf)
    dmmfString,  \* per client: <<>> or <<value>>, JSON.stringify(options.document)
    snapshot,    \* the caller's document as it was before any construction
    runs,        \* per client: number of toTS calls made
    tsOut,       \* per client: result of the last toTS call
    jsOut,       \* per client: result of the last toJS call
    resolved,    \* last instantiation of an emitted payload type
    call,        \* last call of a single emitter: <<>> or <<[op, in, out]>>
    db           \* the ensureDatabaseExists run: <<>> or its state record

vars == <<heap, dmmf, dmmfString, snapshot, runs, tsOut, jsOut, resolved, call, db>>

(***************************************************************************)
(* Bounds                                                                  *)
(***************************************************************************)
MaxRuns == 2        \* toTS calls per client
MaxNodes == 2       \* keys (plus one for a select/include pair) in a selector
MaxMapped == 2      \* mapping entries per entity in the generated schemas
MaxCandidates == 2  \* candidate input shapes of one argument
MaxFields == 3      \* argument fields of one input type
MaxValues == 3      \* values of one enumeration
MaxDatasources == 2 \* datasources of the schema file
MaxLines == 4       \* lines of a datamodel text

Clients == {1, 2}
DocRef == 0         \* the reference held by the caller (options.document)

(***************************************************************************)
(* Small helpers                                                           *)
(***************************************************************************)
\* the element of a one-element set; with a set { e : x \in {v} } it names the
\* value v once for the expression e
The(S) == CHOOSE x \in S : TRUE

MapSeq(s, F(_)) == [i \in 1..Len(s) |-> F(s[i])]

Range(s) == {s[i] : i \in 1..Len(s)}

(***************************************************************************)
(* DMMF.ModelAction and the keys of a DMMF.Mapping                         *)
(***************************************************************************)
ModelAction ==
    <<"findOne", "findMany", "create", "update", "updateMany", "upsert",
      "delete", "deleteMany">>

MappingKeys == ModelAction \o <<"aggregate">>

(***************************************************************************)
(* Name derivation (generation/utils)                                      *)
(***************************************************************************)
getSelectName(modelName) == modelName \o <<"Select">>

getIncludeName(modelName) == modelName \o <<"Include">>

getPayloadName(modelName) == modelName \o <<"GetPayload">>

getArgName(name, isList) ==
    IF ~isList THEN name \o <<"Args">> ELSE <<"FindMany">> \o name \o <<"Args">>

\* action is <<>> for "no action", <<a>> for the action a
getModelArgName(modelName, action) ==
    IF action = <<>> THEN modelName \o <<"Args">>
    ELSE CASE action[1] = "findMany"   -> <<"FindMany">> \o modelName \o <<"Args">>
           [] action[1] = "findOne"    -> <<"FindOne">> \o modelName \o <<"Args">>
           [] action[1] = "upsert"     -> modelName \o <<"Upsert", "Args">>
           [] action[1] = "update"     -> modelName \o <<"Update", "Args">>
           [] action[1] = "updateMany" -> modelName \o <<"UpdateMany", "Args">>
           [] action[1] = "delete"     -> modelName \o <<"Delete", "Args">>
           [] action[1] = "create"     -> modelName \o <<"Create", "Args">>
           [] action[1] = "deleteMany" -> modelName \o <<"DeleteMany", "Args">>
           [] OTHER                    -> modelName \o <<action[1], "Args">>

getFieldArgName(field) == getArgName(field.type, field.isList)

pluralize(name) == name \o <<"s">>

\* GraphQLScalarToJSTypeTable[t] || t
GraphQLScalarToJSType(t) ==
    CASE t = <<"String">>   -> <<"string">>
      [] t = <<"Int">>      -> <<"number">>
      [] t = <<"Float">>    -> <<"number">>
      [] t = <<"Boolean">>  -> <<"boolean">>
      [] t = <<"DateTime">> -> <<"Date">>
      [] OTHER              -> t

(***************************************************************************)
(* Schema documents (DMMF.Document) the generator is given                 *)
(***************************************************************************)
User == <<"User">>
Post == <<"Post">>
UserDelegate == <<"User", "Delegate">>

MkField(name, kind, type, isList, isRequired) ==
    [name |-> name, kind |-> kind, type |-> type,
     isList |-> isList, isRequired |-> isRequired]

ScalarFields(e) ==
    IF e = Post
    THEN <<MkField("id", "scalar", <<"Int">>, FALSE, TRUE),
           MkField("tags", "scalar", <<"String">>, TRUE, TRUE)>>
    ELSE <<MkField("id", "scalar", <<"Int">>, FALSE, TRUE),
           MkField("name", "scalar", <<"String">>, FALSE, FALSE)>>

\* relation fields an entity may carry, by entity
RelationOptions(e) ==
    IF e = User
    THEN { <<>>,
           <<MkField("posts", "object", Post, TRUE, TRUE)>>,
           <<MkField("posts", "object", Post, TRUE, TRUE),
             MkField("author", "object", User, FALSE, FALSE)>> }
    ELSE IF e = Post
    THEN { <<>>,
           <<MkField("author", "object", User, FALSE, TRUE)>>,
           <<MkField("author", "object", User, FALSE, FALSE)>>,
           <<MkField("author", "object", User, FALSE, TRUE),
             MkField("posts", "object", Post, TRUE, FALSE)>> }
    ELSE { <<>> }

MkInputType(type, kind, isList, isRequired, isNullable) ==
    [type |-> type, kind |-> kind, isList |-> isList,
     isRequired |-> isRequired, isNullable |-> isNullable]

\* a DMMF.SchemaArg; comment is <<>> when the argument has none
MkArg(name, inputType, comment) ==
    [name |-> name, inputType |-> inputType, comment |-> comment]

ObjectArg(e, name, suffix, isRequired) ==
    MkArg(name, <<MkInputType(e \o suffix, "object", FALSE, isRequired, FALSE)>>, <<>>)

\* the arguments of the server field of an action
FieldArgs(e, action) ==
    CASE action = "findOne" ->
           <<ObjectArg(e, "where", <<"WhereUniqueInput">>, TRUE)>>
      [] action = "findMany" ->
           <<ObjectArg(e, "where", <<"WhereInput">>, FALSE),
             MkArg("first", <<MkInputType(<<"Int">>, "scalar", FALSE, FALSE, TRUE)>>,
                   <<"Take the first n">>)>>
      [] action = "create" ->
           <<ObjectArg(e, "data", <<"CreateInput">>, TRUE)>>
      [] action = "update" ->
           <<ObjectArg(e, "data", <<"UpdateInput">>, TRUE),
             ObjectArg(e, "where", <<"WhereUniqueInput">>, TRUE)>>
      [] action = "updateMany" ->
           <<ObjectArg(e, "data", <<"UpdateManyInput">>, TRUE),
             ObjectArg(e, "where", <<"WhereInput">>, FALSE)>>
      [] action = "upsert" ->
           <<ObjectArg(e, "where", <<"WhereUniqueInput">>, TRUE),
             ObjectArg(e, "create", <<"CreateInput">>, TRUE),
             ObjectArg(e, "update", <<"UpdateInput">>, TRUE)>>
      [] action = "delete" ->
           <<ObjectArg(e, "where", <<"WhereUniqueInput">>, TRUE)>>
      [] action = "deleteMany" ->
           <<ObjectArg(e, "where", <<"WhereInput">>, FALSE)>>
      [] OTHER -> <<>>

ServerField(e, key) == <<key>> \o e

\* A mapping choice is <<>> (the entity has no mapping) or <<D>>, D the set of
\* mapped keys.  A defect is <<>> or <<i, key, kind>>: entry key of the i-th
\* entity is empty ("") or names a server field the schema does not have.
MkMapping(e, D, i, defect) ==
    [model |-> e, plural |-> pluralize(e),
     acts |-> [k \in D |->
                 IF defect # <<>> /\ defect[1] = i /\ defect[2] = k
                 THEN (IF defect[3] = "empty" THEN <<>> ELSE <<"no", k>> \o e)
                 ELSE ServerField(e, k)]]

MkDocument(names, rels, maps, defect) ==
    LET idx == 1..Len(names)
        mapped == {i \in idx : maps[i] # <<>>}
        good == {<<i, k>> \in idx \X Range(MappingKeys) :
                    /\ i \in mapped
                    /\ k \in maps[i][1]
                    /\ ~(defect # <<>> /\ defect[1] = i /\ defect[2] = k)}
    IN [models |-> [i \in idx |->
                      [name |-> names[i],
                       fields |-> ScalarFields(names[i]) \o rels[i]]],
        mappings |-> MapSeq(SelectSeq([i \in idx |-> i], LAMBDA i : i \in mapped),
                            LAMBDA i : MkMapping(names[i], maps[i][1], i, defect)),
        fields |-> [f \in {ServerField(names[p[1]], p[2]) : p \in good} |->
                      LET p == CHOOSE q \in good : ServerField(names[q[1]], q[2]) = f
                      IN FieldArgs(names[p[1]], p[2])],
        enums |-> <<[name |-> <<"Role">>, values |-> <<"ADMIN", "USER">>]>>,
        inputTypes |-> <<>>]

\* the mapping keys the generated schemas draw from
GenKeys == {"findMany", "deleteMany", "aggregate"}

MappingChoices ==
    {<<>>} \cup {<<D>> : D \in {X \in SUBSET GenKeys : Cardinality(X) <= MaxMapped}}

Defects(names, maps) ==
    {<<>>} \cup
    {<<i, k, kind>> : i \in 1..Len(names), k \in GenKeys, kind \in {"empty", "dangling"}}

GenNames == {<<User>>, <<User, Post>>, <<User, UserDelegate>>}

GenRelations(names) ==
    [i \in 1..Len(names) |->
       IF names = <<User, Post>>
       THEN (IF i = 1 THEN <<MkField("posts", "object", Post, TRUE, TRUE)>>
                      ELSE <<MkField("author", "object", User, FALSE, TRUE)>>)
       ELSE <<>>]

\* schemas for the generation runs: entity names and mappings vary
GenDocs ==
    UNION { UNION { { MkDocument(names, GenRelations(names), maps, defect) :
                        defect \in {d \in Defects(names, maps) :
                                      d = <<>> \/ (/\ maps[d[1]] # <<>>
                                                   /\ d[2] \in maps[d[1]][1])} } :
                    maps \in [1..Len(names) -> MappingChoices] } :
            names \in GenNames }

\* schemas for the payload types: the relation graph varies
PayloadDocs ==
    { MkDocument(<<User, Post>>, <<ru, rp>>,
                 <<<<{"findOne", "findMany"}>>, <<{"findMany", "create"}>>>>, <<>>) :
        ru \in RelationOptions(User), rp \in RelationOptions(Post) }

(***************************************************************************)
(* DMMFClass lookups                                                       *)
(***************************************************************************)
\* dmmf.getField(fieldName): <<args>> of the Query/Mutation field, <<>> if none
getField(doc, fieldName) ==
    IF fieldName \in DOMAIN doc.fields THEN <<doc.fields[fieldName]>> ELSE <<>>

\* dmmf.mappings.find((m) => m.model === name): <<mapping>> or <<>>
findMapping(doc, name) ==
    LET hits == SelectSeq(doc.mappings, LAMBDA m : m.model = name)
    IN IF hits = <<>> THEN <<>> ELSE <<Head(hits)>>

\* mapping[key], <<>> when the entry is absent (undefined) or empty ("")
mappingEntry(mapping, key) ==
    IF key \in DOMAIN mapping.acts THEN mapping.acts[key] ELSE <<>>

IsRelation(f) == f.kind = "object"

(***************************************************************************)
(* Leaf emitters                                                           *)
(***************************************************************************)
\* variant: a non-required list is also given the null union
OutputField_toTS_nullableList(field) ==
    [name |-> field.name,
     type |-> GraphQLScalarToJSType(field.type),
     array |-> field.isList,
     nullable |-> ~field.isRequired]

OutputField_toTS(field) ==
    [name |-> field.name,
     type |-> GraphQLScalarToJSType(field.type),
     array |-> field.isList,
     nullable |-> ~field.isRequired /\ ~field.isList]

wrapComment(str) == <<"/**">> \o str \o <<"**/">>

\* variant: the null suffix does not look at the candidates
InputField_toTS_ignoresNull(field) ==
    [jsdoc |-> IF field.comment # <<>> THEN wrapComment(field.comment) ELSE <<>>,
     name |-> field.name,
     optional |-> ~field.inputType[1].isRequired,
     types |-> MapSeq(field.inputType,
                      LAMBDA t : IF t.kind = "scalar"
                                 THEN GraphQLScalarToJSType(t.type) ELSE t.type),
     enumerable |-> field.inputType[1].isList,
     nullable |-> ~field.inputType[1].isRequired /\ field.inputType[1].isNullable]

InputField_toTS(field) ==
    LET types == MapSeq(field.inputType,
                        LAMBDA t : IF t.kind = "scalar"
                                   THEN GraphQLScalarToJSType(t.type) ELSE t.type)
        hasNull == \E i \in 1..Len(types) : types[i] = <<"null">>
        fieldInputType == field.inputType[1]
    IN [jsdoc |-> IF field.comment # <<>> THEN wrapComment(field.comment) ELSE <<>>,
        name |-> field.name,
        optional |-> ~fieldInputType.isRequired,
        types |-> types,
        enumerable |-> fieldInputType.isList,
        nullable |-> /\ ~fieldInputType.isRequired
                     /\ ~hasNull
                     /\ fieldInputType.isNullable]

\* variant: every member has the name of the enumeration as its value
Enum_toTS_nameValue(type) ==
    [id |-> type.name,
     members |-> MapSeq(type.values, LAMBDA v : [key |-> v, value |-> type.name[1]]),
     union |-> [k |-> "Indexed", of |-> [k |-> "typeof", id |-> type.name],
                by |-> [k |-> "keyof", of |-> [k |-> "typeof", id |-> type.name]]]]

\* export declare const X: { v: 'v', ... };
\* export declare type X = (typeof X)[keyof typeof X]
Enum_toTS(type) ==
    [id |-> type.name,
     members |-> MapSeq(type.values, LAMBDA v : [key |-> v, value |-> v]),
     union |-> [k |-> "Indexed", of |-> [k |-> "typeof", id |-> type.name],
                by |-> [k |-> "keyof", of |-> [k |-> "typeof", id |-> type.name]]]]

(***************************************************************************)
(* PayloadType                                                             *)
(***************************************************************************)
\* variant: the null union is tried before the list form
PayloadType_wrapType_nullFirst(field, str) ==
    IF field.isRequired /\ ~field.isList THEN str
    ELSE IF ~field.isRequired THEN [k |-> "OrNull", of |-> str]
    ELSE IF field.isList THEN [k |-> "Array", of |-> str]
    ELSE str

PayloadType_wrapType(field, str) ==
    IF field.isRequired /\ ~field.isList THEN str
    ELSE IF field.isList THEN [k |-> "Array", of |-> str]
    ELSE IF ~field.isRequired THEN [k |-> "OrNull", of |-> str]
    ELSE str

\* renderRelations with its parts given: '' is <<>>; otherwise the mapped type
\*   { [P in TrueKeys<S[projection]>]: (P extends keyof T ? T[P] :)
\*        P extends 'f' ? wrap(FGetPayload<S[argProjection][P]>) : ... else }
RelationsMappedType(type, projection, selectPrefix, argProjection, else) ==
    LET relations == SelectSeq(type.fields, IsRelation)
    IN IF Len(relations) = 0 /\ projection = "include" THEN <<>>
       ELSE <<[over |-> projection,
               selectPrefix |-> selectPrefix,
               cases |-> MapSeq(relations, LAMBDA f :
                            [key |-> f.name,
                             then |-> PayloadType_wrapType(f,
                                        [k |-> "Payload",
                                         id |-> getPayloadName(f.type),
                                         arg |-> argProjection])]),
               else |-> else]>>

\* variant: no pass-through of the entity's own fields under select
PayloadType_renderRelations_noPrefix(type, projection) ==
    RelationsMappedType(type, projection, <<>>, projection, "never")

\* variant: the nested selector is always read from S['select']
PayloadType_renderRelations_selectArg(type, projection) ==
    RelationsMappedType(type, projection,
                        IF projection = "select" THEN <<type.name>> ELSE <<>>,
                        "select", "never")

\* variant: a key that matches nothing falls through to any
PayloadType_renderRelations_any(type, projection) ==
    RelationsMappedType(type, projection,
                        IF projection = "select" THEN <<type.name>> ELSE <<>>,
                        projection, "any")

\* variant: the related entity's shape is written in place of its payload name
PayloadType_renderRelations_inlined(type, projection) ==
    <<[over |-> projection,
       selectPrefix |-> IF projection = "select" THEN <<type.name>> ELSE <<>>,
       cases |-> MapSeq(SelectSeq(type.fields, IsRelation), LAMBDA f :
                    [key |-> f.name,
                     then |-> PayloadType_wrapType(f,
                                [k |-> "Object", plain |-> <<f.type>>,
                                 props |-> [key \in {f.name} |-> "never"]])]),
       else |-> "never"]>>

\*   { [P in TrueKeys<S[projection]>]: (P extends keyof T ? T[P] :)
\*        P extends 'f' ? wrap(FGetPayload<S[projection][P]>) : ... never }
PayloadType_renderRelations(type, projection) ==
    RelationsMappedType(type, projection,
                        IF projection = "select" THEN <<type.name>> ELSE <<>>,
                        projection, "never")

\* variant: a selector that is no arguments object resolves to never
PayloadType_toTS_otherwiseNever(type) ==
    LET argsName == getArgName(type.name, FALSE)
        include == PayloadType_renderRelations(type, "include")
        select == PayloadType_renderRelations(type, "select")
    IN [id |-> getPayloadName(type.name),
        constraint |-> argsName,
        onTrue |-> type.name,
        onUndefined |-> "never",
        extendsArgs |-> <<argsName, getModelArgName(type.name, <<"findMany">>)>>,
        onInclude |-> [plain |-> <<type.name>>, mapped |-> include],
        onSelect |-> [plain |-> <<>>, mapped |-> select],
        onNeither |-> type.name,
        otherwise |-> <<"never">>]

\* export type XGetPayload<S extends boolean | null | undefined | XArgs, U = keyof S>
\*   = S extends true ? X : S extends undefined ? never
\*   : S extends XArgs | FindManyXArgs
\*     ? 'include' extends U ? X & include : 'select' extends U ? select : X
\*     : X
PayloadType_toTS(type) ==
    LET argsName == getArgName(type.name, FALSE)
        include == PayloadType_renderRelations(type, "include")
        select == PayloadType_renderRelations(type, "select")
    IN [id |-> getPayloadName(type.name),
        constraint |-> argsName,
        onTrue |-> type.name,
        onUndefined |-> "never",
        extendsArgs |-> <<argsName, getModelArgName(type.name, <<"findMany">>)>>,
        onInclude |-> [plain |-> <<type.name>>, mapped |-> include],
        onSelect |-> [plain |-> <<>>, mapped |-> select],
        onNeither |-> type.name,
        otherwise |-> type.name]

(***************************************************************************)
(* Argument types                                                          *)
(***************************************************************************)
\* the argument names that have a description, by action
topLevelArgsJsDocs ==
    [findOne  |-> {"where"},
     findMany |-> {"where", "orderBy", "skip", "cursor", "take"},
     create   |-> {"data"},
     update   |-> {"data", "where"},
     upsert   |-> {"where", "create", "update"},
     delete   |-> {"where"}]

\* the text topLevelArgsJsDocs[action][argName](singular, plural)
JsDocText(action, argName, singular, plural) ==
    <<action, argName>> \o singular \o plural

TypeError(what) == [type |-> "TypeError", field |-> what]

\* variant: the reduced argument set also offers select
MinimalArgsType_toTS_withSelect(args, model, action) ==
    [id |-> getModelArgName(model.name, action),
     title |-> <<model.name, action>>,
     members |-> MapSeq(<<MkArg("select",
                               <<MkInputType(getSelectName(model.name), "object",
                                             FALSE, FALSE, TRUE)>>,
                               <<>>)>> \o args,
                        InputField_toTS)]

MinimalArgsType_toTS(args, model, action) ==
    [id |-> getModelArgName(model.name, action),
     title |-> <<model.name, action>>,
     members |-> MapSeq(args, InputField_toTS)]

\* variant: the description is added to the comment that is there
ArgsType_assignComments_append(args, model, action) ==
    [i \in 1..Len(args) |->
       IF /\ action # <<>>
          /\ action[1] \in DOMAIN topLevelArgsJsDocs
          /\ args[i].name \in topLevelArgsJsDocs[action[1]]
       THEN [args[i] EXCEPT !.comment =
               @ \o JsDocText(action[1], args[i].name, model.name, pluralize(model.name))]
       ELSE args[i]]

\* the args.forEach of ArgsType.toTS: the arguments with their comments assigned
ArgsType_assignComments(args, model, action) ==
    [i \in 1..Len(args) |->
       IF /\ action # <<>>
          /\ action[1] \in DOMAIN topLevelArgsJsDocs
          /\ args[i].name \in topLevelArgsJsDocs[action[1]]
       THEN [args[i] EXCEPT !.comment =
               JsDocText(action[1], args[i].name, model.name, pluralize(model.name))]
       ELSE args[i]]

\* variant: the declared arguments come before select and include
ArgsType_toTS_argsFirst(args, model, action) ==
    IF action # <<>> /\ action[1] \notin DOMAIN topLevelArgsJsDocs /\ args # <<>>
    THEN [err |-> <<TypeError(action)>>, args |-> args, decl |-> <<>>]
    ELSE
    LET name == model.name
        assigned == ArgsType_assignComments(args, model, action)
        select == MkArg("select",
                        <<MkInputType(getSelectName(name), "object", FALSE, FALSE, TRUE)>>,
                        <<"Select specific fields to fetch from the">> \o name)
        include == MkArg("include",
                         <<MkInputType(getIncludeName(name), "object", FALSE, FALSE, TRUE)>>,
                         <<"Choose, which related nodes to fetch as well.">>)
        hasRelationField == \E i \in 1..Len(model.fields) : IsRelation(model.fields[i])
    IN [err |-> <<>>,
        args |-> assigned,
        decl |-> <<[id |-> getModelArgName(name, action),
                    title |-> <<name, action>>,
                    members |-> MapSeq(assigned \o <<select>>
                                         \o (IF hasRelationField THEN <<include>> ELSE <<>>),
                                       InputField_toTS)]>>]

\* err: <<>> or <<error>>; args: the arguments as toTS leaves them; decl: the text
ArgsType_toTS(args, model, action) ==
    IF action # <<>> /\ action[1] \notin DOMAIN topLevelArgsJsDocs /\ args # <<>>
    THEN [err |-> <<TypeError(action)>>, args |-> args, decl |-> <<>>]
    ELSE
    LET name == model.name
        assigned == ArgsType_assignComments(args, model, action)
        select == MkArg("select",
                        <<MkInputType(getSelectName(name), "object", FALSE, FALSE, TRUE)>>,
                        <<"Select specific fields to fetch from the">> \o name)
        include == MkArg("include",
                         <<MkInputType(getIncludeName(name), "object", FALSE, FALSE, TRUE)>>,
                         <<"Choose, which related nodes to fetch as well.">>)
        hasRelationField == \E i \in 1..Len(model.fields) : IsRelation(model.fields[i])
        bothArgsOptional ==
            <<select>> \o (IF hasRelationField THEN <<include>> ELSE <<>>) \o assigned
    IN [err |-> <<>>,
        args |-> assigned,
        decl |-> <<[id |-> getModelArgName(name, action),
                    title |-> <<name, action>>,
                    members |-> MapSeq(bothArgsOptional, InputField_toTS)]>>]

\* One entry of the list the argsTypes getter builds: the class, the server
\* field whose args it holds (<<>> for the bare type) and the action.
MkArgsType(cls, fieldName, action) ==
    [cls |-> cls, fieldName |-> fieldName, action |-> action]

\* variant: an action whose server field is not found is skipped
RECURSIVE Model_argsTypesLoop_skipMissing(_, _, _, _)
Model_argsTypesLoop_skipMissing(doc, mapping, i, acc) ==
    IF i > Len(ModelAction)
    THEN [err |-> <<>>, list |-> acc \o <<MkArgsType("ArgsType", <<>>, <<>>)>>]
    ELSE
    LET action == ModelAction[i]
        fieldName == mappingEntry(mapping, action)
    IN IF fieldName = <<>> \/ getField(doc, fieldName) = <<>>
       THEN Model_argsTypesLoop_skipMissing(doc, mapping, i + 1, acc)
       ELSE Model_argsTypesLoop_skipMissing(doc, mapping, i + 1,
              acc \o <<MkArgsType(IF action \in {"updateMany", "deleteMany"}
                                  THEN "MinimalArgsType" ELSE "ArgsType",
                                  fieldName, <<action>>)>>)

\* variant: every action gets the full argument type
RECURSIVE Model_argsTypesLoop_allArgsType(_, _, _, _)
Model_argsTypesLoop_allArgsType(doc, mapping, i, acc) ==
    IF i > Len(ModelAction)
    THEN [err |-> <<>>, list |-> acc \o <<MkArgsType("ArgsType", <<>>, <<>>)>>]
    ELSE
    LET action == ModelAction[i]
        fieldName == mappingEntry(mapping, action)
    IN IF fieldName = <<>>
       THEN Model_argsTypesLoop_allArgsType(doc, mapping, i + 1, acc)
       ELSE IF getField(doc, fieldName) = <<>>
       THEN [err |-> <<[type |-> "Error", field |-> fieldName]>>, list |-> <<>>]
       ELSE Model_argsTypesLoop_allArgsType(doc, mapping, i + 1,
              acc \o <<MkArgsType("ArgsType", fieldName, <<action>>)>>)

RECURSIVE Model_argsTypesLoop(_, _, _, _)
Model_argsTypesLoop(doc, mapping, i, acc) ==
    IF i > Len(ModelAction)
    THEN [err |-> <<>>, list |-> acc \o <<MkArgsType("ArgsType", <<>>, <<>>)>>]
    ELSE
    LET action == ModelAction[i]
        fieldName == mappingEntry(mapping, action)
    IN IF fieldName = <<>>
       THEN Model_argsTypesLoop(doc, mapping, i + 1, acc)
       ELSE IF getField(doc, fieldName) = <<>>
       THEN [err |-> <<[type |-> "Error", field |-> fieldName]>>, list |-> <<>>]
       ELSE Model_argsTypesLoop(doc, mapping, i + 1,
              acc \o <<MkArgsType(IF action \in {"updateMany", "deleteMany"}
                                  THEN "MinimalArgsType" ELSE "ArgsType",
                                  fieldName, <<action>>)>>)

\* get argsTypes(): mapping is <<>> or <<m>>
Model_argsTypes(doc, mapping) ==
    IF mapping = <<>> THEN [err |-> <<>>, list |-> <<>>]
    ELSE Model_argsTypesLoop(doc, mapping[1], 1, <<>>)

\* toTS of one entry of the list, on the document st.doc as the entries before
\* it left it; ArgsType.toTS assigns the comments to the arguments it reads
RenderArgsType(st, model, a) ==
    The({ IF a.cls = "MinimalArgsType"
          THEN [st EXCEPT !.decls = @ \o <<MinimalArgsType_toTS(args, model, a.action)>>]
          ELSE The({ IF r.err # <<>> THEN [err |-> r.err, doc |-> st.doc, decls |-> <<>>]
                     ELSE [err |-> <<>>,
                           doc |-> IF a.fieldName = <<>> THEN st.doc
                                   ELSE [st.doc EXCEPT !.fields[a.fieldName] = r.args],
                           decls |-> st.decls \o r.decl] :
                     r \in {ArgsType_toTS(args, model, a.action)} }) :
          args \in {IF a.fieldName = <<>> THEN <<>> ELSE st.doc.fields[a.fieldName]} })

\* this.argsTypes.map(TS): renders the list in order, up to the first error
RECURSIVE RenderArgsTypes(_, _, _, _)
RenderArgsTypes(st, model, list, i) ==
    IF i > Len(list) \/ st.err # <<>> THEN st
    ELSE The({ RenderArgsTypes(next, model, list, i + 1) :
               next \in {RenderArgsType(st, model, list[i])} })

(***************************************************************************)
(* Delegate, model section, document                                       *)
(***************************************************************************)
getSelectReturnType(name, actionName) ==
    IF actionName \in {"deleteMany", "updateMany"}
    THEN [k |-> "BatchPayload"]
    ELSE [k |-> "CheckSelect",
          plain |-> name,
          payload |-> getPayloadName(name),
          list |-> actionName = "findMany"]

\* variant: entries are not filtered by their value
DelegateActions_keepEmpty(mapping) ==
    SelectSeq(MappingKeys,
              LAMBDA key : key \in DOMAIN mapping.acts /\ key # "aggregate")

\* Object.entries(mapping) without model, plural, aggregate and empty values
DelegateActions(mapping) ==
    SelectSeq(MappingKeys,
              LAMBDA key : /\ key \in DOMAIN mapping.acts
                           /\ key # "aggregate"
                           /\ mapping.acts[key] # <<>>)

\* the delegate text with its parts given: the keys count omits and the
\* action an accessor is typed with
DelegateText(outputType, doc, omitted, AccessorAction(_)) ==
    LET name == outputType.name
        mapping == findMapping(doc, name)
    IN IF mapping = <<>> THEN <<>>
       ELSE <<[id |-> name \o <<"Delegate">>,
               operations |-> MapSeq(DelegateActions(mapping[1]), LAMBDA actionName :
                                [name |-> actionName,
                                 args |-> getModelArgName(name, <<actionName>>),
                                 optional |-> actionName = "findMany",
                                 returns |-> getSelectReturnType(name, actionName)]),
               count |-> [omit |-> omitted,
                          from |-> getModelArgName(name, <<"findMany">>)],
               client |-> [id |-> name \o <<"Client">>,
                           accessors |-> MapSeq(SelectSeq(outputType.fields, IsRelation),
                                LAMBDA f :
                                  [name |-> f.name,
                                   args |-> getFieldArgName(f),
                                   returns |-> getSelectReturnType(f.type,
                                                                   AccessorAction(f))])]]>>

\* variant: count keeps the select member
ModelDelegate_toTS_countKeepsSelect(outputType, doc) ==
    DelegateText(outputType, doc, {"include"},
                 LAMBDA f : IF f.isList THEN "findMany" ELSE "findOne")

\* variant: every accessor is typed with the find-one action
ModelDelegate_toTS_findOneAccessors(outputType, doc) ==
    DelegateText(outputType, doc, {"select", "include"}, LAMBDA f : "findOne")

\* '' is <<>>; otherwise the interface XDelegate and the class XClient
ModelDelegate_toTS(outputType, doc) ==
    DelegateText(outputType, doc, {"select", "include"},
                 LAMBDA f : IF f.isList THEN "findMany" ELSE "findOne")

SelectMember(f) ==
    [name |-> f.name,
     types |-> <<<<"boolean">>>> \o (IF IsRelation(f) THEN <<getFieldArgName(f)>> ELSE <<>>)]

\* err: <<>> or <<error>>; doc: the document as toTS leaves it; text: <<section>>
Model_toTS(model, doc) ==
    The({ IF argsTypes.err # <<>> THEN [err |-> argsTypes.err, doc |-> doc, text |-> <<>>]
          ELSE The({
            IF rendered.err # <<>> THEN [err |-> rendered.err, doc |-> rendered.doc, text |-> <<>>]
            ELSE [err |-> <<>>,
                  doc |-> rendered.doc,
                  text |-> <<[name |-> model.name,
                              value |-> [id |-> model.name,
                                         members |-> MapSeq(SelectSeq(model.fields,
                                                               LAMBDA f : ~IsRelation(f)),
                                                            OutputField_toTS)],
                              select |-> [id |-> getSelectName(model.name),
                                          members |-> MapSeq(model.fields, SelectMember)],
                              include |->
                                 IF \E i \in 1..Len(model.fields) : IsRelation(model.fields[i])
                                 THEN <<[id |-> getIncludeName(model.name),
                                         members |-> MapSeq(SelectSeq(model.fields, IsRelation),
                                                            SelectMember)]>>
                                 ELSE <<>>,
                              payload |-> PayloadType_toTS(model),
                              delegate |-> ModelDelegate_toTS(model, doc),
                              argsTypes |-> rendered.decls]>>] :
            rendered \in {RenderArgsTypes([err |-> <<>>, doc |-> doc, decls |-> <<>>],
                                          model, argsTypes.list, 1)} }) :
          argsTypes \in {Model_argsTypes(doc, findMapping(doc, model.name))} })

\* err is <<>> or <<error>>; text is <<class>>
PrismaClientClass_toTS(doc) ==
    IF doc.mappings = <<>>
    THEN [err |-> <<TypeError(<<"plural">>)>>, text |-> <<>>]
    ELSE [err |-> <<>>,
          text |-> <<[id |-> <<"PrismaClient">>,
                      accessors |-> MapSeq(SelectSeq(doc.mappings, LAMBDA m :
                                               mappingEntry(m, "findMany") # <<>>),
                                           LAMBDA m : [model |-> m.model,
                                                       returns |-> m.model \o <<"Delegate">>])]>>]

\* variant: of the fields of one name the last one survives
uniqueBy_lastWins(arr) ==
    SelectSeq([i \in 1..Len(arr) |-> [at |-> i, value |-> arr[i]]],
              LAMBDA e : \A j \in (e.at + 1)..Len(arr) : arr[j].name # e.value.name)

\* uniqueBy(arr, (f) => f.name): the elements with their position, so that
\* equal elements at different positions stay apart
uniqueBy(arr) ==
    SelectSeq([i \in 1..Len(arr) |-> [at |-> i, value |-> arr[i]]],
              LAMBDA e : \A j \in 1..(e.at - 1) : arr[j].name # e.value.name)

InputType_toTS(type) ==
    [id |-> type.name,
     members |-> MapSeq(uniqueBy(type.fields), LAMBDA e : InputField_toTS(e.value)),
     from |-> MapSeq(uniqueBy(type.fields), LAMBDA e : e.at)]

\* Object.values(this.dmmf.modelMap).map((model) => new Model(...).toTS())
RECURSIVE RenderModels(_, _)
RenderModels(st, i) ==
    IF i > Len(st.doc.models) \/ st.err # <<>> THEN st
    ELSE The({ RenderModels(IF r.err # <<>> THEN [err |-> r.err, doc |-> r.doc, text |-> <<>>]
                            ELSE [err |-> <<>>, doc |-> r.doc, text |-> st.text \o r.text],
                            i + 1) :
               r \in {Model_toTS(st.doc.models[i], st.doc)} })

\* err: <<>> or <<error thrown>>; text: <<>> or <<document>>; doc: this.dmmf after
TSClient_toTS(doc) ==
    The({ IF client.err # <<>> THEN [err |-> client.err, text |-> <<>>, doc |-> doc]
          ELSE The({
            IF models.err # <<>> THEN [err |-> models.err, text |-> <<>>, doc |-> models.doc]
            ELSE [err |-> <<>>,
                  doc |-> models.doc,
                  text |-> <<[client |-> client.text[1],
                              enums |-> MapSeq(doc.enums, Enum_toTS),
                              models |-> models.text,
                              inputTypes |-> MapSeq(doc.inputTypes, InputType_toTS),
                              batchPayload |-> <<"BatchPayload">>]>>] :
            models \in {RenderModels([err |-> <<>>, doc |-> doc, text |-> <<>>], 1)} }) :
          client \in {PrismaClientClass_toTS(doc)} })

\* dmmfString and the enums, the parts of toJS that come from the schema
TSClient_toJS(string, doc) ==
    [dmmfString |-> string, enums |-> MapSeq(doc.enums, Enum_toTS)]

(***************************************************************************)
(* Selector types                                                          *)
(*   Lit(v): the literal types true, false, null, undefined                *)
(*   Obj(m): an object type; m maps the keys among select, include that    *)
(*           it has to a key map (key -> selector)                         *)
(***************************************************************************)
Lit(v) == [k |-> "lit", v |-> v]

Obj(m) == [k |-> "obj", m |-> m]

TopLits == {"true", "false", "null", "undefined"}

NestedLits == {"true", "false"}

SelectorKeys == <<"id", "posts", "author">>

RECURSIVE Values(_), Objects(_), MapsOver(_, _)
\* key maps over the keys ks with at most n nodes
MapsOver(ks, n) ==
    IF ks = <<>> \/ n = 0 THEN {<<>>}
    ELSE MapsOver(Tail(ks), n) \cup
         UNION { { (Head(ks) :> v) @@ m : v \in Values(b), m \in MapsOver(Tail(ks), n - 1 - b) } :
                 b \in 0..(n - 1) }

Objects(n) ==
    {Obj(<<>>)}
    \cup {Obj([select |-> m]) : m \in MapsOver(SelectorKeys, n)}
    \cup {Obj([include |-> m]) : m \in MapsOver(SelectorKeys, n)}
    \cup UNION { {Obj([select |-> m1, include |-> m2]) :
                    m1 \in MapsOver(SelectorKeys, b),
                    m2 \in MapsOver(SelectorKeys, n - 1 - b)} : b \in 0..(n - 1) }

Values(n) == {Lit(v) : v \in NestedLits} \cup Objects(n)

Selectors == {Lit(v) : v \in TopLits} \cup Objects(MaxNodes)

(***************************************************************************)
(* Evaluation of the emitted types on selector types.  text is a rendered  *)
(* document; declarations are found in it by identifier.                   *)
(***************************************************************************)
Never == [k |-> "never"]

Named(id) == [k |-> "Named", id |-> id]

SectionOf(text, name) ==
    LET hits == SelectSeq(text.models, LAMBDA m : m.name = name) IN hits[1]

PayloadDecl(text, id) ==
    LET hits == SelectSeq(text.models, LAMBDA m : m.payload.id = id) IN hits[1].payload

\* the members of the declared object type id, <<>> when id is not declared:
\* <<members, kind>> with kind "args" for an argument type, "keys" for a
\* Select or Include type
ObjectTypeDecl(text, id) ==
    LET args == UNION { {a \in Range(m.argsTypes) : a.id = id} : m \in Range(text.models) }
        keys == { m.select : m \in {x \in Range(text.models) : x.select.id = id} }
                \cup UNION { {i \in Range(m.include) : i.id = id} : m \in Range(text.models) }
    IN IF args # {} THEN <<(CHOOSE a \in args : TRUE).members, "args">>
       ELSE IF keys # {} THEN <<(CHOOSE t \in keys : TRUE).members, "keys">>
       ELSE <<>>

\* TrueKeys<T>: the keys of T whose type is not false | undefined | null
TrueKeys(map) ==
    {key \in DOMAIN map : ~(map[key].k = "lit" /\ map[key].v \in {"false", "undefined", "null"})}

\* S is assignable to the declared object type id.  A type whose members are
\* all optional accepts an object type only if it is empty or shares a member.
RECURSIVE Assignable(_, _, _), MapAssignable(_, _, _)
Assignable(text, S, id) ==
    LET decl == ObjectTypeDecl(text, id)
    IN IF decl = <<>> THEN TRUE
       ELSE LET members == decl[1]
                names == {members[i].name : i \in 1..Len(members)}
                member(n) == CHOOSE x \in Range(members) : x.name = n
            IN /\ S.k = "obj"
               /\ \A i \in 1..Len(members) :
                     ~members[i].optional => members[i].name \in DOMAIN S.m
               /\ DOMAIN S.m = {} \/ DOMAIN S.m \cap names # {}
               /\ \A key \in DOMAIN S.m \cap names :
                     \E j \in 1..Len(member(key).types) :
                        MapAssignable(text, S.m[key], member(key).types[j])

MapAssignable(text, map, id) ==
    LET decl == ObjectTypeDecl(text, id)
    IN IF decl = <<>> THEN TRUE
       ELSE LET members == decl[1]
                names == {members[i].name : i \in 1..Len(members)}
                member(n) == CHOOSE x \in Range(members) : x.name = n
            IN /\ DOMAIN map = {} \/ DOMAIN map \cap names # {}
               /\ \A key \in DOMAIN map \cap names :
                     IF map[key].k = "lit"
                     THEN map[key].v \in {"true", "false", "undefined"}
                     ELSE \E j \in 1..Len(member(key).types) :
                             /\ member(key).types[j] # <<"boolean">>
                             /\ Assignable(text, map[key], member(key).types[j])

\* the constraint of the type parameter S of the payload type of entity name
SatisfiesConstraint(text, name, S) ==
    \/ S.k = "lit"
    \/ Assignable(text, S, SectionOf(text, name).payload.constraint)

\* T[P] for a value type T
IndexedAccess(text, name, key) ==
    LET members == SectionOf(text, name).value.members
    IN [k |-> "Field", field |-> CHOOSE x \in Range(members) : x.name = key]

KeyOf(text, name) ==
    LET members == SectionOf(text, name).value.members
    IN {members[i].name : i \in 1..Len(members)}

\* S[projection][P]; a property that is not there has type undefined
Lookup(S, projection, P) ==
    IF projection \in DOMAIN S.m /\ P \in DOMAIN S.m[projection]
    THEN S.m[projection][P] ELSE Lit("undefined")

RECURSIVE EvalPayload(_, _, _), EvalTypeExpr(_, _, _, _)
\* the type expression expr of a mapped type over S, at the key P
EvalTypeExpr(text, expr, S, P) ==
    CASE expr.k = "Payload" -> EvalPayload(text, expr.id, Lookup(S, expr.arg, P))
      [] expr.k = "Array"   -> [k |-> "Array", of |-> EvalTypeExpr(text, expr.of, S, P)]
      [] expr.k = "OrNull"  -> [k |-> "OrNull", of |-> EvalTypeExpr(text, expr.of, S, P)]

\* { [P in TrueKeys<S[over]>]: ... }
EvalMapped(text, mapped, S) ==
    LET map == IF mapped.over \in DOMAIN S.m THEN S.m[mapped.over] ELSE <<>>
    IN [P \in TrueKeys(map) |->
          IF mapped.selectPrefix # <<>> /\ P \in KeyOf(text, mapped.selectPrefix[1])
          THEN IndexedAccess(text, mapped.selectPrefix[1], P)
          ELSE LET hits == SelectSeq(mapped.cases, LAMBDA c : c.key = P)
               IN IF hits # <<>> THEN EvalTypeExpr(text, hits[1].then, S, P)
                  ELSE [k |-> mapped.else]]

\* a conditional branch: plain & mapped, either part may be missing
EvalBranch(text, branch, S) ==
    IF branch.mapped = <<>> THEN Named(branch.plain[1])
    ELSE [k |-> "Object", plain |-> branch.plain,
          props |-> EvalMapped(text, branch.mapped[1], S)]

\* XGetPayload<S>
EvalPayload(text, id, S) ==
    LET decl == PayloadDecl(text, id)
    IN IF S = Lit("true") THEN Named(decl.onTrue)
       ELSE IF S = Lit("undefined") THEN Never
       ELSE IF /\ S.k = "obj"
               /\ \E i \in 1..Len(decl.extendsArgs) : Assignable(text, S, decl.extendsArgs[i])
       THEN (IF "include" \in DOMAIN S.m THEN EvalBranch(text, decl.onInclude, S)
             ELSE IF "select" \in DOMAIN S.m THEN EvalBranch(text, decl.onSelect, S)
             ELSE Named(decl.onNeither))
       ELSE Named(decl.otherwise)

\* CheckSelect<T, S, U>
CheckSelect(T, S, U) ==
    IF T.k = "obj" /\ {"select", "include"} \subseteq DOMAIN T.m
    THEN [k |-> "Message", text |-> "Please either choose select or include"]
    ELSE IF T.k = "obj" /\ "select" \in DOMAIN T.m THEN U
    ELSE IF T.k = "obj" /\ "include" \in DOMAIN T.m THEN U
    ELSE S

(***************************************************************************)
(* The state machine                                                       *)
(***************************************************************************)
NoObject == <<>>

\* variant: no copy is made, the client keeps the caller's reference
klona_shared(h, src, fresh) == [ref |-> src, heap |-> h]

\* klona(h[src]) stored at the fresh reference
klona(h, src, fresh) ==
    [ref |-> fresh, heap |-> [h EXCEPT ![fresh] = h[src]]]

InitGen(Docs) ==
    /\ \E d \in Docs :
          /\ heap = [r \in {DocRef} \cup Clients |-> IF r = DocRef THEN d ELSE NoObject]
          /\ snapshot = d
    /\ dmmf = [c \in Clients |-> <<>>]
    /\ dmmfString = [c \in Clients |-> <<>>]
    /\ runs = [c \in Clients |-> 0]
    /\ tsOut = [c \in Clients |-> <<>>]
    /\ jsOut = [c \in Clients |-> <<>>]
    /\ resolved = <<>>
    /\ call = <<>>

InitWith(Docs) == InitGen(Docs) /\ db = <<>>

\* new TSClient(options) with options.document the caller's document
Construct(c) ==
    /\ dmmf[c] = <<>>
    /\ LET copy == klona(heap, DocRef, c)
       IN /\ heap' = copy.heap
          /\ dmmf' = [dmmf EXCEPT ![c] = <<copy.ref>>]
    /\ dmmfString' = [dmmfString EXCEPT ![c] = <<heap[DocRef]>>]
    /\ UNCHANGED <<snapshot, runs, tsOut, jsOut, resolved, call, db>>

\* client.toTS()
ToTS(c) ==
    /\ dmmf[c] # <<>>
    /\ runs[c] < MaxRuns
    /\ \E r \in {TSClient_toTS(heap[dmmf[c][1]])} :
          /\ heap' = [heap EXCEPT ![dmmf[c][1]] = r.doc]
          /\ tsOut' = [tsOut EXCEPT ![c] = <<[err |-> r.err, text |-> r.text]>>]
    /\ runs' = [runs EXCEPT ![c] = @ + 1]
    /\ UNCHANGED <<dmmf, dmmfString, snapshot, jsOut, resolved, call, db>>

\* client.toJS()
ToJS(c) ==
    /\ dmmf[c] # <<>>
    /\ jsOut' = [jsOut EXCEPT ![c] = <<TSClient_toJS(dmmfString[c][1], heap[dmmf[c][1]])>>]
    /\ UNCHANGED <<heap, dmmf, dmmfString, snapshot, runs, tsOut, resolved, call, db>>

\* a use XGetPayload<S> of the payload type of entity name in the document
\* client c generated
Instantiate(c, name, S) ==
    /\ resolved = <<>>
    /\ tsOut[c] # <<>>
    /\ tsOut[c][1].text # <<>>
    /\ LET text == tsOut[c][1].text[1]
       IN /\ name \in {text.models[i].name : i \in 1..Len(text.models)}
          /\ resolved' = <<[entity |-> name,
                            S |-> S,
                            accepted |-> SatisfiesConstraint(text, name, S),
                            type |-> EvalPayload(text, getPayloadName(name), S)]>>
    /\ UNCHANGED <<heap, dmmf, dmmfString, snapshot, runs, tsOut, jsOut, call, db>>

\* generation runs of two clients over one caller document
Init == InitWith(GenDocs)

Next == \E c \in Clients : Construct(c) \/ ToTS(c) \/ ToJS(c)

Spec == Init /\ [][Next]_vars

\* one generated document and the uses of its payload types
InitPayload == InitWith(PayloadDocs)

NextPayload ==
    \/ Construct(1)
    \/ runs[1] = 0 /\ ToTS(1)
    \/ resolved = <<>> /\ \E name \in {User, Post}, S \in Selectors : Instantiate(1, name, S)

SpecPayload == InitPayload /\ [][NextPayload]_vars

(***************************************************************************)
(* Single emitters applied to the fields and arguments a schema can hold   *)
(***************************************************************************)
LeafTypes == {<<"Int">>, <<"String">>, <<"DateTime">>, <<"Role">>}

LeafFields ==
    {MkField(n, "scalar", t, l, r) :
       n \in {"id", "tags"}, t \in LeafTypes, l \in BOOLEAN, r \in BOOLEAN}

RelationFields ==
    {MkField(n, "object", e, l, r) :
       n \in {"posts", "author"}, e \in {User, Post}, l \in BOOLEAN, r \in BOOLEAN}

\* the candidate shapes of an argument: type and kind
CandidateTypes ==
    {<<<<"String">>, "scalar">>, <<<<"Int">>, "scalar">>, <<<<"null">>, "scalar">>,
     <<<<"User", "WhereInput">>, "object">>}

\* duplicate-free lists of at most n candidates
RECURSIVE CandidateLists(_)
CandidateLists(n) ==
    IF n = 0 THEN {<<>>}
    ELSE {<<>>} \cup
         UNION { {<<t>> \o rest :
                    rest \in {r \in CandidateLists(n - 1) :
                                \A i \in 1..Len(r) : r[i] # t}} :
                 t \in CandidateTypes }

InputArgs ==
    {MkArg("where",
           [i \in 1..Len(ts) |-> MkInputType(ts[i][1], ts[i][2], l, r, n)],
           <<>>) :
       ts \in CandidateLists(MaxCandidates) \ {<<>>},
       l \in BOOLEAN, r \in BOOLEAN, n \in BOOLEAN}

\* sequences over S of at most n elements
RECURSIVE SeqsUpTo(_, _)
SeqsUpTo(S, n) ==
    IF n = 0 THEN {<<>>}
    ELSE The({ prev \cup {Append(q, x) : q \in {r \in prev : Len(r) = n - 1}, x \in S} :
               prev \in {SeqsUpTo(S, n - 1)} })

\* argument fields of two names, told apart by their type
ArgFields ==
    {MkArg(n, <<MkInputType(t, "scalar", FALSE, TRUE, FALSE)>>, <<>>) :
       n \in {"where", "data"}, t \in {<<"String">>, <<"Int">>}}

\* DMMF.InputType values, fields of one name allowed
InputTypes ==
    {[name |-> <<"User", "WhereInput">>, fields |-> fs] : fs \in SeqsUpTo(ArgFields, MaxFields)}

EnumValues == {"ADMIN", "USER", "GUEST", "OWNER"}

\* DMMF.Enum values; the values of an enumeration are distinct
Enums ==
    {[name |-> <<"Role">>, values |-> vs] :
       vs \in {q \in SeqsUpTo(EnumValues, MaxValues) :
                 \A i, j \in 1..Len(q) : q[i] = q[j] => i = j}}

\* schemas with one entity mapped for one action
EmitDocs ==
    {MkDocument(<<User, Post>>, <<ru, <<>>>>, <<<<{a}>>, <<>>>>, <<>>) :
       ru \in RelationOptions(User), a \in Range(ModelAction)}

\* new OutputField(field).toTS()
CallOutputField(field) ==
    /\ call = <<>>
    /\ call' = <<[op |-> "OutputField", in |-> field, out |-> OutputField_toTS(field)]>>
    /\ UNCHANGED <<heap, dmmf, dmmfString, snapshot, runs, tsOut, jsOut, resolved, db>>

\* wrapType(field, str) of a relation field
CallWrapType(field) ==
    /\ call = <<>>
    /\ call' = <<[op |-> "wrapType", in |-> field,
                  out |-> PayloadType_wrapType(field, Named(getPayloadName(field.type)))]>>
    /\ UNCHANGED <<heap, dmmf, dmmfString, snapshot, runs, tsOut, jsOut, resolved, db>>

\* new InputField(arg).toTS()
CallInputField(arg) ==
    /\ call = <<>>
    /\ call' = <<[op |-> "InputField", in |-> arg, out |-> InputField_toTS(arg)]>>
    /\ UNCHANGED <<heap, dmmf, dmmfString, snapshot, runs, tsOut, jsOut, resolved, db>>

\* new InputType(type).toTS()
CallInputType(type) ==
    /\ call = <<>>
    /\ call' = <<[op |-> "InputType", in |-> type, out |-> InputType_toTS(type)]>>
    /\ UNCHANGED <<heap, dmmf, dmmfString, snapshot, runs, tsOut, jsOut, resolved, db>>

\* new Enum(type).toTS()
CallEnum(type) ==
    /\ call = <<>>
    /\ call' = <<[op |-> "Enum", in |-> type, out |-> Enum_toTS(type)]>>
    /\ UNCHANGED <<heap, dmmf, dmmfString, snapshot, runs, tsOut, jsOut, resolved, db>>

\* new Model(model, dmmf).toTS() of the first entity of the document
CallModel ==
    /\ call = <<>>
    /\ call' = <<[op |-> "Model", in |-> snapshot.models[1],
                  out |-> Model_toTS(snapshot.models[1], snapshot)]>>
    /\ UNCHANGED <<heap, dmmf, dmmfString, snapshot, runs, tsOut, jsOut, resolved, db>>

InitEmit == InitWith(EmitDocs)

NextEmit ==
    \/ \E field \in LeafFields : CallOutputField(field)
    \/ \E field \in RelationFields : CallWrapType(field)
    \/ \E arg \in InputArgs : CallInputField(arg)
    \/ \E type \in InputTypes : CallInputType(type)
    \/ \E type \in Enums : CallEnum(type)
    \/ CallModel

SpecEmit == InitEmit /\ [][NextEmit]_vars

(***************************************************************************)
(* printDatamodelDiff: trimMultiEmptyLines and trimWholeBlocks              *)
(* (specification SpecDiff).  A text is a sequence of tokens: a space, a   *)
(* line break, a brace, a block keyword or another word.                   *)
(***************************************************************************)
NL == "\n"

\* str.split('\n')
RECURSIVE split(_)
split(str) ==
    IF \A i \in 1..Len(str) : str[i] # NL THEN <<str>>
    ELSE The({ <<SubSeq(str, 1, i - 1)>> \o split(SubSeq(str, i + 1, Len(str))) :
               i \in {CHOOSE k \in 1..Len(str) :
                         str[k] = NL /\ \A j \in 1..(k - 1) : str[j] # NL} })

\* lines.join('\n')
RECURSIVE join(_)
join(lines) ==
    IF lines = <<>> THEN <<>>
    ELSE IF Len(lines) = 1 THEN lines[1]
    ELSE lines[1] \o <<NL>> \o join(Tail(lines))

\* line.trim()
RECURSIVE trim(_)
trim(line) ==
    IF line = <<>> THEN line
    ELSE IF line[1] = " " THEN trim(Tail(line))
    ELSE IF line[Len(line)] = " " THEN trim(SubSeq(line, 1, Len(line) - 1))
    ELSE line

\* variant: every blank line that has a line before it is kept
RECURSIVE trimMultiEmptyLines_loop_keepAll(_, _, _)
trimMultiEmptyLines_loop_keepAll(lines, i, newLines) ==
    IF i = 0 THEN newLines
    ELSE IF Len(trim(lines[i])) > 0 \/ i > 1
    THEN trimMultiEmptyLines_loop_keepAll(lines, i - 1, <<lines[i]>> \o newLines)
    ELSE trimMultiEmptyLines_loop_keepAll(lines, i - 1, newLines)

\* while (i--) { ... newLines.unshift(line) ... }; i is the 1-based index of
\* the line looked at, 0 when the loop has ended
RECURSIVE trimMultiEmptyLines_loop(_, _, _)
trimMultiEmptyLines_loop(lines, i, newLines) ==
    IF i = 0 THEN newLines
    ELSE IF Len(trim(lines[i])) > 0
    THEN trimMultiEmptyLines_loop(lines, i - 1, <<lines[i]>> \o newLines)
    ELSE IF i > 1 /\ lines[i - 1] # <<>> /\ Len(trim(lines[i - 1])) > 0
    THEN trimMultiEmptyLines_loop(lines, i - 1, <<lines[i]>> \o newLines)
    ELSE trimMultiEmptyLines_loop(lines, i - 1, newLines)

trimMultiEmptyLines(str) ==
    The({ join(trimMultiEmptyLines_loop(lines, Len(lines), <<>>)) : lines \in {split(str)} })

\* one line break less at the start and at the end
trimNewLine(str) ==
    IF str = <<>> THEN str
    ELSE The({ IF Len(newStr) > 0 /\ newStr[Len(newStr)] = NL
               THEN SubSeq(newStr, 1, Len(newStr) - 1) ELSE newStr :
               newStr \in {IF str[1] = NL THEN Tail(str) ELSE str} })

DefaultBlocks == {"model", "enum", "datasource", "generator"}

\* variant: an opening line inside an open block does not restart the block
RECURSIVE trimWholeBlocks_scan_noRestart(_, _, _, _)
trimWholeBlocks_scan_noRestart(lines, blocks, index, st) ==
    IF index > Len(lines) THEN st.modelPositions
    ELSE The({ trimWholeBlocks_scan_noRestart(lines, blocks, index + 1,
                  IF /\ trim(lines[index]) # <<>>
                     /\ trim(lines[index])[Len(trim(lines[index]))] = "}"
                     /\ opened.currentStart > 0 /\ opened.blockOpen
                  THEN [blockOpen |-> FALSE, currentStart |-> 0,
                        modelPositions |-> Append(opened.modelPositions,
                                                  [start |-> opened.currentStart,
                                                   end |-> index])]
                  ELSE opened) :
               opened \in {IF /\ ~st.blockOpen
                               /\ lines[index] # <<>>
                               /\ lines[index][1] \in blocks
                               /\ lines[index][Len(lines[index])] = "{"
                            THEN [st EXCEPT !.blockOpen = TRUE, !.currentStart = index]
                            ELSE st} })

\* lines.forEach((line, index) => ...): index is 1-based, currentStart 0 is -1
RECURSIVE trimWholeBlocks_scan(_, _, _, _)
trimWholeBlocks_scan(lines, blocks, index, st) ==
    IF index > Len(lines) THEN st.modelPositions
    ELSE The({ trimWholeBlocks_scan(lines, blocks, index + 1,
                  IF /\ trim(lines[index]) # <<>>
                     /\ trim(lines[index])[Len(trim(lines[index]))] = "}"
                     /\ opened.currentStart > 0 /\ opened.blockOpen
                  THEN [blockOpen |-> FALSE, currentStart |-> 0,
                        modelPositions |-> Append(opened.modelPositions,
                                                  [start |-> opened.currentStart,
                                                   end |-> index])]
                  ELSE opened) :
               opened \in {IF /\ lines[index] # <<>>
                               /\ lines[index][1] \in blocks
                               /\ lines[index][Len(lines[index])] = "{"
                            THEN [st EXCEPT !.blockOpen = TRUE, !.currentStart = index]
                            ELSE st} })

\* modelPositions.reduceRight((acc, position) => acc.splice(...), lines)
RECURSIVE trimWholeBlocks_splice(_, _, _)
trimWholeBlocks_splice(acc, modelPositions, k) ==
    IF k = 0 THEN acc
    ELSE trimWholeBlocks_splice(SubSeq(acc, 1, modelPositions[k].start - 1)
                                  \o SubSeq(acc, modelPositions[k].end + 1, Len(acc)),
                                modelPositions, k - 1)

trimWholeBlocks(str, blocks) ==
    The({ IF Len(lines) <= 2 THEN str
          ELSE The({ IF modelPositions = <<>> THEN str
                     ELSE trimNewLine(join(trimWholeBlocks_splice(lines, modelPositions,
                                                                  Len(modelPositions)))) :
                     modelPositions \in {trimWholeBlocks_scan(lines, blocks, 1,
                                            [blockOpen |-> FALSE, currentStart |-> 0,
                                             modelPositions |-> <<>>])} }) :
          lines \in {split(str)} })

\* the lines the texts are made of
LineKinds ==
    {<<>>, <<" ">>, <<"x">>, <<"x", "{">>, <<"model", "{">>, <<" ", "model", "{">>,
     <<"}">>, <<" ", "}", " ">>}

Texts == {join(lines) : lines \in SeqsUpTo(LineKinds, MaxLines) \ {<<>>}}

CallTrimMultiEmptyLines(str) ==
    /\ call = <<>>
    /\ call' = <<[op |-> "trimMultiEmptyLines", in |-> str, out |-> trimMultiEmptyLines(str)]>>
    /\ UNCHANGED <<heap, dmmf, dmmfString, snapshot, runs, tsOut, jsOut, resolved, db>>

CallTrimWholeBlocks(str) ==
    /\ call = <<>>
    /\ call' = <<[op |-> "trimWholeBlocks", in |-> str,
                  out |-> trimWholeBlocks(str, DefaultBlocks)]>>
    /\ UNCHANGED <<heap, dmmf, dmmfString, snapshot, runs, tsOut, jsOut, resolved, db>>

InitDiff == InitWith({MkDocument(<<User, Post>>, <<<<>>, <<>>>>, <<<<>>, <<>>>>, <<>>)})

NextDiff ==
    \/ call = <<>> /\ \E str \in Texts : CallTrimMultiEmptyLines(str)
    \/ call = <<>> /\ \E str \in Texts : CallTrimWholeBlocks(str)

SpecDiff == InitDiff /\ [][NextDiff]_vars

(***************************************************************************)
(* ensureDatabaseExists and the create-database dialog                     *)
(* (specifications SpecDb and SpecDbLive).  The run is cut at its awaits;  *)
(* log is the order of the calls made so far.                              *)
(***************************************************************************)
MigrateAction == {"create", "apply", "unapply", "dev"}

Datasources ==
    {[url |-> u, enabled |-> e] : u \in {"file:dev.db", "mysql://db"}, e \in BOOLEAN}

\* what canConnectToDatabase resolves to: true, or a code and a message
ConnectResults ==
    {[ok |-> TRUE, code |-> "", message |-> ""],
     [ok |-> FALSE, code |-> "P1003", message |-> "Database does not exist"],
     [ok |-> FALSE, code |-> "P1001", message |-> "Can't reach database server"]}

\* config.datasources.length === 1 ? config.datasources[0]
\*   : config.datasources.find((d) => d.config.enabled === 'true') || config.datasources[0]
\* <<>> is undefined
activeDatasource(datasources) ==
    IF Len(datasources) = 1 THEN <<datasources[1]>>
    ELSE IF \E i \in 1..Len(datasources) : datasources[i].enabled
    THEN <<datasources[CHOOSE i \in 1..Len(datasources) :
                          /\ datasources[i].enabled
                          /\ \A j \in 1..(i - 1) : ~datasources[j].enabled]>>
    ELSE IF datasources = <<>> THEN <<>>
    ELSE <<datasources[1]>>

Thrown(d, error) == [d EXCEPT !.pc = "done", !.outcome = "thrown", !.error = error]

\* variant: the database is created after every failed connectivity check
ensureDatabaseExists_afterConnect_anyCode(d, canConnect) ==
    IF canConnect.ok THEN [d EXCEPT !.pc = "done", !.outcome = "returned"]
    ELSE IF ~d.schemaDir THEN Thrown(d, <<"Could not locate schema.prisma">>)
    ELSE IF d.forceCreate
    THEN [d EXCEPT !.pc = "awaitCreate", !.creation = "running",
                   !.log = @ \o <<"createDatabase">>]
    ELSE [d EXCEPT !.pc = "dialog", !.dialog = "mounted", !.promise = "pending",
                   !.log = @ \o <<"render">>]

\* ensureDatabaseExists from the result of canConnectToDatabase to the next
\* await
ensureDatabaseExists_afterConnect(d, canConnect) ==
    IF canConnect.ok THEN [d EXCEPT !.pc = "done", !.outcome = "returned"]
    ELSE IF canConnect.code # "P1003"
    THEN Thrown(d, <<canConnect.code, ": ", canConnect.message>>)
    ELSE IF ~d.schemaDir THEN Thrown(d, <<"Could not locate schema.prisma">>)
    ELSE IF d.forceCreate
    THEN [d EXCEPT !.pc = "awaitCreate", !.creation = "running",
                   !.log = @ \o <<"createDatabase">>]
    ELSE [d EXCEPT !.pc = "dialog", !.dialog = "mounted", !.promise = "pending",
                   !.log = @ \o <<"render">>]

\* variant: the flag is not set before the call
onSelect_noFlag(d, shouldCreate) ==
    IF shouldCreate
    THEN [d EXCEPT !.choice = <<"Yes">>, !.creation = "running",
                   !.log = @ \o <<"createDatabase">>]
    ELSE [d EXCEPT !.choice = <<"No">>, !.pc = "exited", !.exit = <<0>>,
                   !.log = @ \o <<"exit">>]

\* onSelect(shouldCreate) to its await, or to process.exit(0)
onSelect(d, shouldCreate) ==
    IF shouldCreate
    THEN [d EXCEPT !.choice = <<"Yes">>, !.creating = TRUE, !.creation = "running",
                   !.log = @ \o <<"setCreating(true)", "createDatabase">>]
    ELSE [d EXCEPT !.choice = <<"No">>, !.pc = "exited", !.exit = <<0>>,
                   !.log = @ \o <<"exit">>]

\* onSelect after its await, then onDone and the return of the awaiting
\* functions; a rejected createDatabase rejects onSelect, which nothing awaits
onSelect_resume(d, created) ==
    IF created
    THEN [d EXCEPT !.pc = "done", !.creation = "succeeded", !.creating = FALSE,
                   !.dialog = "unmounted", !.promise = "resolved",
                   !.outcome = "returned",
                   !.log = @ \o <<"setCreating(false)", "unmount", "resolve">>]
    ELSE [d EXCEPT !.creation = "failed"]

\* ensureDatabaseExists(action, killInk, forceCreate, schemaPath) up to the
\* await of canConnectToDatabase
Start ==
    /\ db.pc = "start"
    /\ db' = IF activeDatasource(db.datasources) = <<>>
             THEN Thrown(db, <<"Couldn't find a datasource in the schema.prisma file">>)
             ELSE [db EXCEPT !.pc = "connect"]
    /\ UNCHANGED <<heap, dmmf, dmmfString, snapshot, runs, tsOut, jsOut, resolved, call>>

\* canConnectToDatabase settles with canConnect
Connect(canConnect) ==
    /\ db.pc = "connect"
    /\ db' = ensureDatabaseExists_afterConnect([db EXCEPT !.canConnect = <<canConnect>>],
                                               canConnect)
    /\ UNCHANGED <<heap, dmmf, dmmfString, snapshot, runs, tsOut, jsOut, resolved, call>>

\* the createDatabase call of the forceCreate branch settles
ForceCreateSettles(created) ==
    /\ db.pc = "awaitCreate"
    /\ db' = IF created
             THEN [db EXCEPT !.pc = "done", !.creation = "succeeded", !.outcome = "returned"]
             ELSE [db EXCEPT !.pc = "done", !.creation = "failed", !.outcome = "thrown",
                             !.error = <<"createDatabase">>]
    /\ UNCHANGED <<heap, dmmf, dmmfString, snapshot, runs, tsOut, jsOut, resolved, call>>

\* the user selects a link of the dialog; Yes is shown while creating is false
Select(shouldCreate) ==
    /\ db.pc = "dialog"
    /\ shouldCreate => ~db.creating
    /\ db' = onSelect(db, shouldCreate)
    /\ UNCHANGED <<heap, dmmf, dmmfString, snapshot, runs, tsOut, jsOut, resolved, call>>

\* the createDatabase call started by onSelect settles
CreateSettles(created) ==
    /\ db.pc = "dialog"
    /\ db.creation = "running"
    /\ db' = onSelect_resume(db, created)
    /\ UNCHANGED <<heap, dmmf, dmmfString, snapshot, runs, tsOut, jsOut, resolved, call>>

InitDb ==
    /\ InitGen({MkDocument(<<User, Post>>, <<<<>>, <<>>>>, <<<<>>, <<>>>>, <<>>)})
    /\ \E action \in MigrateAction, forceCreate \in BOOLEAN, schemaDir \in BOOLEAN,
          datasources \in SeqsUpTo(Datasources, MaxDatasources) :
          db = [pc |-> "start", action |-> action, forceCreate |-> forceCreate,
                schemaDir |-> schemaDir, datasources |-> datasources,
                canConnect |-> <<>>, creation |-> "none", dialog |-> "none",
                creating |-> FALSE, promise |-> "none", choice |-> <<>>,
                outcome |-> "running", error |-> <<>>, exit |-> <<>>, log |-> <<>>]

NextDb ==
    \/ Start
    \/ \E canConnect \in ConnectResults : Connect(canConnect)
    \/ \E created \in BOOLEAN : ForceCreateSettles(created)
    \/ \E shouldCreate \in BOOLEAN : Select(shouldCreate)
    \/ \E created \in BOOLEAN : CreateSettles(created)

SpecDb == InitDb /\ [][NextDb]_vars

\* a started createDatabase call settles
SpecDbLive ==
    InitDb /\ [][NextDb]_vars /\ WF_vars(\E created \in BOOLEAN : CreateSettles(created))

(***************************************************************************)
(* Payload types: claims C1-C4, C9 (specification SpecPayload)             *)
(***************************************************************************)
\* the schema entity of a name, and its fields by kind
EntityOf(doc, name) == CHOOSE m \in Range(doc.models) : m.name = name

RelationsOf(doc, name) == {f \in Range(EntityOf(doc, name).fields) : f.kind = "object"}

ScalarsOf(doc, name) == {f \in Range(EntityOf(doc, name).fields) : f.kind # "object"}

FieldNamed(fs, key) == CHOOSE f \in fs : f.name = key

Names(fs) == {f.name : f \in fs}

\* keys of a key map that are selected: neither false, null nor undefined
Selected(K) ==
    {key \in DOMAIN K : K[key] \notin {Lit("false"), Lit("null"), Lit("undefined")}}

HasBoth(S) == S.k = "obj" /\ DOMAIN S.m = {"select", "include"}

OnlySelect(S) == S.k = "obj" /\ DOMAIN S.m = {"select"}

OnlyInclude(S) == S.k = "obj" /\ DOMAIN S.m = {"include"}

\* a use of a payload type whose selector meets the declared constraint
Used == resolved # <<>> /\ resolved[1].accepted

\* the rendered form of a scalar field of the schema
ScalarType(f) ==
    [k |-> "Field",
     field |-> [name |-> f.name,
                type |-> GraphQLScalarToJSType(f.type),
                array |-> f.isList,
                nullable |-> ~f.isRequired /\ ~f.isList]]

\* C1: a selector that has both a select and an include key is rejected or
\* resolves to never; it is not resolved to the select or the include result.
C1_MutualExclusivity ==
    (resolved # <<>> /\ HasBoth(resolved[1].S)) =>
        (~resolved[1].accepted \/ resolved[1].type = Never)

\* C2: for a selector {select: K} the payload has exactly the keys selected
\* in K; a selected scalar key has the entity's own scalar field type.
C2_SelectSoundness ==
    (Used /\ OnlySelect(resolved[1].S)) =>
        LET K == resolved[1].S.m["select"]
            T == resolved[1].type
            scalars == ScalarsOf(snapshot, resolved[1].entity)
        IN /\ T.k = "Object"
           /\ T.plain = <<>>
           /\ DOMAIN T.props = Selected(K)
           /\ \A key \in Selected(K) \cap Names(scalars) :
                 T.props[key] = ScalarType(FieldNamed(scalars, key))

C2_Witness ==
    /\ Used /\ OnlySelect(resolved[1].S)
    /\ "id" \in Selected(resolved[1].S.m["select"])
    /\ \E f \in RelationsOf(snapshot, resolved[1].entity) :
          f.name \notin DOMAIN resolved[1].S.m["select"]
    /\ DOMAIN resolved[1].type.props = {"id"}

\* the member type without its multiplicity wrapping
Unwrapped(X) == IF X.k \in {"Array", "OrNull"} THEN X.of ELSE X

\* the payload of the entity a relation key leads to, at the nested selector
ChildPayload(name, K, key) ==
    EvalPayload(tsOut[1][1].text[1],
                getPayloadName(FieldNamed(RelationsOf(snapshot, name), key).type),
                K[key])

\* C3 as stated: for every selector {include: K} the payload is the entity's
\* plain value type plus exactly the relation keys selected in K, each typed
\* by the related entity's payload; no scalar field's type is changed.
C3_IncludeOnlyRelationKeys ==
    (Used /\ OnlyInclude(resolved[1].S)) =>
        LET K == resolved[1].S.m["include"]
            T == resolved[1].type
            name == resolved[1].entity
            selected == Selected(K) \cap Names(RelationsOf(snapshot, name))
        IN /\ T.k = "Object"
           /\ T.plain = <<name>>
           /\ DOMAIN T.props = selected
           /\ \A key \in selected : Unwrapped(T.props[key]) = ChildPayload(name, K, key)

\* C3 amended: the payload is the entity's plain value type intersected with
\* one member for every key selected in K: a relation key is typed by the
\* related entity's payload (so with K selecting relation fields only, the
\* scalar fields keep their types), any other selected key is typed never.
C3_IncludeSoundness ==
    (Used /\ OnlyInclude(resolved[1].S)) =>
        LET K == resolved[1].S.m["include"]
            T == resolved[1].type
            name == resolved[1].entity
            relations == Names(RelationsOf(snapshot, name))
        IN /\ T.k = "Object"
           /\ T.plain = <<name>>
           /\ DOMAIN T.props = Selected(K)
           /\ \A key \in Selected(K) \cap relations :
                 Unwrapped(T.props[key]) = ChildPayload(name, K, key)
           /\ \A key \in Selected(K) \ relations : T.props[key] = Never

C3_Witness ==
    /\ Used /\ OnlyInclude(resolved[1].S)
    /\ Cardinality(RelationsOf(snapshot, resolved[1].entity)) = 2
    /\ Selected(resolved[1].S.m["include"]) = {"posts"}
    /\ resolved[1].type.k = "Object"
    /\ DOMAIN resolved[1].type.props = {"posts"}

\* the projection a selector with one of the two keys uses
ProjectionOf(S) == IF OnlySelect(S) THEN "select" ELSE "include"

\* C4: a selected relation key is typed by the related entity's payload at the
\* nested selector, as a sequence for a list relation, with | null for a
\* non-list non-required relation, unwrapped otherwise, at every depth.
RECURSIVE WrappedAtEveryDepth(_, _, _, _)
WrappedAtEveryDepth(text, name, S, T) ==
    IF ~(OnlySelect(S) \/ OnlyInclude(S)) \/ T.k # "Object" THEN TRUE
    ELSE LET K == S.m[ProjectionOf(S)]
         IN \A f \in RelationsOf(snapshot, name) :
               f.name \in Selected(K) =>
                  LET child == EvalPayload(text, getPayloadName(f.type), K[f.name])
                  IN /\ T.props[f.name] =
                          (IF f.isList THEN [k |-> "Array", of |-> child]
                           ELSE IF ~f.isRequired THEN [k |-> "OrNull", of |-> child]
                           ELSE child)
                     /\ WrappedAtEveryDepth(text, f.type, K[f.name], child)

C4_NestedWrapping ==
    Used => WrappedAtEveryDepth(tsOut[1][1].text[1], resolved[1].entity,
                                resolved[1].S, resolved[1].type)

C4_Witness ==
    /\ Used /\ OnlySelect(resolved[1].S)
    /\ resolved[1].entity = User
    /\ "posts" \in DOMAIN resolved[1].S.m["select"]
    /\ OnlySelect(resolved[1].S.m["select"]["posts"])
    /\ "author" \in Selected(resolved[1].S.m["select"]["posts"].m["select"])
    /\ resolved[1].type.props["posts"].k = "Array"
    /\ resolved[1].type.props["posts"].of.k = "Object"
    /\ resolved[1].type.props["posts"].of.props["author"].k = "OrNull"

\* C9: in a select or include selector, a selected key that is not a field of
\* the entity valid for that mode resolves to never, and the document was
\* generated.
C9_UnknownKeyNever ==
    (Used /\ (OnlySelect(resolved[1].S) \/ OnlyInclude(resolved[1].S))) =>
        LET S == resolved[1].S
            K == S.m[ProjectionOf(S)]
            valid == IF OnlySelect(S)
                     THEN Names(Range(EntityOf(snapshot, resolved[1].entity).fields))
                     ELSE Names(RelationsOf(snapshot, resolved[1].entity))
        IN /\ tsOut[1][1].err = <<>>
           /\ \A key \in Selected(K) \ valid :
                 /\ resolved[1].type.k = "Object"
                 /\ resolved[1].type.props[key] = Never

C9_Witness ==
    /\ Used /\ OnlyInclude(resolved[1].S)
    /\ "id" \in Selected(resolved[1].S.m["include"])
    /\ resolved[1].type.props["id"] = Never

(***************************************************************************)
(* Generation runs: claims C5-C8, C10 (specification Spec)                 *)
(***************************************************************************)
Generated(c) == tsOut[c] # <<>> /\ tsOut[c][1].text # <<>>

TextOf(c) == tsOut[c][1].text[1]

\* C5: whatever constructions, toTS and toJS calls were made, the caller's
\* document is as it was before the first construction, and every client was
\* built from that value.
C5_CallerDocumentUnchanged ==
    /\ heap[DocRef] = snapshot
    /\ \A c \in Clients : dmmfString[c] # <<>> => dmmfString[c][1] = snapshot

C5_Witness ==
    \E c \in Clients :
       /\ runs[c] > 0 /\ jsOut[c] # <<>>
       /\ heap[dmmf[c][1]] # snapshot
       /\ \E d \in Clients \ {c} : dmmf[d] # <<>> /\ runs[d] = 0

\* C6: any two finished toTS calls on the same schema document, by the same
\* or by different clients, return the same result.
C6_Determinism ==
    \A c1, c2 \in Clients :
       (tsOut[c1] # <<>> /\ tsOut[c2] # <<>>) => tsOut[c1] = tsOut[c2]

C6_Witness ==
    /\ Generated(1) /\ Generated(2)
    /\ runs[1] = 2 /\ runs[2] = 1
    /\ heap[dmmf[1][1]] # snapshot

\* the declarations of a document: identifier and declaration space
Decl(id, space) == [id |-> id, space |-> space]

SectionDeclarations(m) ==
    <<Decl(m.value.id, {"type"}), Decl(m.select.id, {"type"})>>
    \o MapSeq(m.include, LAMBDA i : Decl(i.id, {"type"}))
    \o <<Decl(m.payload.id, {"type"})>>
    \o (IF m.delegate = <<>> THEN <<>>
        ELSE <<Decl(m.delegate[1].id, {"type"}),
               Decl(m.delegate[1].client.id, {"type", "value"})>>)
    \o MapSeq(m.argsTypes, LAMBDA a : Decl(a.id, {"type"}))

RECURSIVE Flatten(_)
Flatten(ss) == IF ss = <<>> THEN <<>> ELSE Head(ss) \o Flatten(Tail(ss))

Declarations(text) ==
    <<Decl(text.client.id, {"type", "value"})>>
    \o Flatten(MapSeq(text.enums, LAMBDA e : <<Decl(e.id, {"value"}), Decl(e.id, {"type"})>>))
    \o Flatten(MapSeq(text.models, SectionDeclarations))
    \o MapSeq(text.inputTypes, LAMBDA t : Decl(t.id, {"type"}))
    \o <<Decl(text.batchPayload, {"type"})>>

\* C7: no two declarations of a generated document have the same identifier
\* (in the same declaration space).
C7_UniqueIdentifiers ==
    \A c \in Clients :
       Generated(c) =>
          LET ds == Declarations(TextOf(c))
          IN \A i, j \in 1..Len(ds) :
                (i # j /\ ds[i].id = ds[j].id) => ds[i].space \cap ds[j].space = {}

\* the entries of the mappings that name a server field the schema lacks
Dangling(doc, keys) ==
    UNION { {m.acts[key] : key \in {x \in DOMAIN m.acts \cap keys :
                                       m.acts[x] # <<>> /\ m.acts[x] \notin DOMAIN doc.fields}} :
            m \in Range(doc.mappings) }

\* C8: the delegate of an entity with a mapping has exactly one operation for
\* each non-empty entry other than aggregate; for an action whose entry is
\* absent or empty there is no operation and no argument type, and the
\* generation does not fail.
C8_UnmappedActionOmitted ==
    \A c \in Clients :
       (/\ tsOut[c] # <<>>
        /\ snapshot.mappings # <<>>
        /\ Dangling(snapshot, Range(ModelAction)) = {}) =>
          /\ Generated(c)
          /\ \A i \in 1..Len(TextOf(c).models) :
                LET sec == TextOf(c).models[i]
                    ms == {m \in Range(snapshot.mappings) : m.model = sec.name}
                IN ms # {} =>
                     LET acts == (CHOOSE m \in ms : TRUE).acts
                         mapped == {key \in DOMAIN acts \ {"aggregate"} : acts[key] # <<>>}
                         ops == sec.delegate[1].operations
                     IN /\ sec.delegate # <<>>
                        /\ {ops[j].name : j \in 1..Len(ops)} = mapped
                        /\ Len(ops) = Cardinality(mapped)
                        /\ \A a \in Range(ModelAction) \ mapped :
                              \A j \in 1..Len(sec.argsTypes) :
                                 sec.argsTypes[j].title # <<sec.name, <<a>>>>

C8_Witness ==
    /\ Generated(1)
    /\ \E m \in Range(snapshot.mappings) :
          /\ m.model = User
          /\ DOMAIN m.acts = {"findMany", "deleteMany"}
          /\ m.acts["deleteMany"] = <<>>
    /\ Len(TextOf(1).models[1].delegate[1].operations) = 1

\* the outcome the claim describes: an Error naming one of the fields, no text
FatalFor(c, fields) ==
    /\ tsOut[c][1].text = <<>>
    /\ tsOut[c][1].err # <<>>
    /\ tsOut[c][1].err[1].type = "Error"
    /\ tsOut[c][1].err[1].field \in fields

\* C10 as stated: if an entry of an entity's mapping names a server field the
\* schema does not have, toTS throws an error naming it and returns no text.
C10_InconsistencyFatal ==
    \A c \in Clients :
       (tsOut[c] # <<>> /\ Dangling(snapshot, Range(MappingKeys)) # {}) =>
          FatalFor(c, Dangling(snapshot, Range(MappingKeys)))

\* C10 amended: the same for the entries of the eight model actions; the
\* aggregate entry is not looked up.
C10_ActionInconsistencyFatal ==
    \A c \in Clients :
       (tsOut[c] # <<>> /\ Dangling(snapshot, Range(ModelAction)) # {}) =>
          FatalFor(c, Dangling(snapshot, Range(ModelAction)))

C10_Witness ==
    /\ tsOut[1] # <<>>
    /\ Len(snapshot.models) = 2
    /\ Dangling(snapshot, Range(ModelAction)) = {<<"no", "findMany">> \o snapshot.models[2].name}
    /\ tsOut[1][1].err # <<>>
    /\ heap[dmmf[1][1]] # snapshot


(***************************************************************************)
(* Argument types of the generated document: claims C11-C13                *)
(***************************************************************************)
BulkActions == {<<"updateMany">>, <<"deleteMany">>}

\* a rendered member without its description
Shape(member) == [member EXCEPT !.jsdoc = <<>>]

MemberNames(decl) == [i \in 1..Len(decl.members) |-> decl.members[i].name]

\* the arguments the schema declares for the server field of an entity's action
DeclaredArgs(name, action) ==
    IF action = <<>> THEN <<>>
    ELSE snapshot.fields[findMapping(snapshot, name)[1].acts[action[1]]]

DeclaredShapes(name, action) ==
    [i \in 1..Len(DeclaredArgs(name, action)) |->
        Shape(InputField_toTS(DeclaredArgs(name, action)[i]))]

HasRelation(name) == RelationsOf(snapshot, name) # {}

\* the mapped actions of an entity: the non-empty entries among the model actions
MappedActions(name) ==
    IF findMapping(snapshot, name) = <<>> THEN {}
    ELSE {a \in Range(ModelAction) :
            mappingEntry(findMapping(snapshot, name)[1], a) # <<>>}

\* C11: in every argument type other than the bulk ones the members are
\* select, then include if and only if the entity has a relation field, then
\* the declared arguments of the action, each as declared and in their order.
C11_ArgsMemberOrder ==
    \A c \in Clients :
       Generated(c) =>
          \A i \in 1..Len(TextOf(c).models) :
             LET sec == TextOf(c).models[i]
             IN \A j \in 1..Len(sec.argsTypes) :
                   LET decl == sec.argsTypes[j]
                       action == decl.title[2]
                       prefix == <<"select">> \o
                                 (IF HasRelation(sec.name) THEN <<"include">> ELSE <<>>)
                   IN action \notin BulkActions =>
                        /\ Len(decl.members) = Len(prefix) + Len(DeclaredArgs(sec.name, action))
                        /\ SubSeq(MemberNames(decl), 1, Len(prefix)) = prefix
                        /\ [k \in 1..Len(DeclaredArgs(sec.name, action)) |->
                               Shape(decl.members[Len(prefix) + k])]
                             = DeclaredShapes(sec.name, action)

C11_Witness ==
    /\ Generated(1)
    /\ HasRelation(User)
    /\ \E j \in 1..Len(TextOf(1).models[1].argsTypes) :
          /\ TextOf(1).models[1].argsTypes[j].title = <<User, <<"findMany">>>>
          /\ MemberNames(TextOf(1).models[1].argsTypes[j])
               = <<"select", "include", "where", "first">>

\* C12: the argument types of updateMany and deleteMany have exactly the
\* declared arguments of the action and neither select nor include; the
\* argument type of every other mapped action has a select member.
C12_BulkReducedArgs ==
    \A c \in Clients :
       Generated(c) =>
          \A i \in 1..Len(TextOf(c).models) :
             LET sec == TextOf(c).models[i]
                 DeclsOf(a) == {j \in 1..Len(sec.argsTypes) :
                                  sec.argsTypes[j].title = <<sec.name, <<a>>>>}
             IN \A a \in MappedActions(sec.name) :
                   /\ Cardinality(DeclsOf(a)) = 1
                   /\ \A j \in DeclsOf(a) :
                         IF <<a>> \in BulkActions
                         THEN /\ [k \in 1..Len(sec.argsTypes[j].members) |->
                                     Shape(sec.argsTypes[j].members[k])]
                                   = DeclaredShapes(sec.name, <<a>>)
                              /\ Range(MemberNames(sec.argsTypes[j]))
                                   \cap {"select", "include"} = {}
                         ELSE "select" \in Range(MemberNames(sec.argsTypes[j]))

C12_Witness ==
    /\ Generated(1)
    /\ MappedActions(User) = {"findMany", "deleteMany"}
    /\ \E j \in 1..Len(TextOf(1).models[1].argsTypes) :
          /\ TextOf(1).models[1].argsTypes[j].title = <<User, <<"deleteMany">>>>
          /\ MemberNames(TextOf(1).models[1].argsTypes[j]) = <<"where">>

\* C13: every entity of the schema has a section in the document, and the
\* section has exactly one argument type without action.
C13_BareArgsTypeOnce ==
    \A c \in Clients :
       Generated(c) =>
          /\ Len(TextOf(c).models) = Len(snapshot.models)
          /\ \A i \in 1..Len(TextOf(c).models) :
                Cardinality({j \in 1..Len(TextOf(c).models[i].argsTypes) :
                               TextOf(c).models[i].argsTypes[j].title
                                 = <<snapshot.models[i].name, <<>>>>}) = 1


(***************************************************************************)
(* Single emitters: claims C14, C19, C20 (specification SpecEmit)          *)
(***************************************************************************)
Called(op) == call # <<>> /\ call[1].op = op

\* the action the entity of a one-action schema is mapped for
TheAction(name) == CHOOSE a \in MappedActions(name) : TRUE

\* C14: emitting the argument types of an entity mapped for any one action
\* completes without error; afterwards an argument has the description of
\* the (action, argument name) table if the table has the combination, and
\* the description it had otherwise, also for an action the table lacks.
C14_DescriptionsNeverFail ==
    Called("Model") =>
       LET name == call[1].in.name
           a == TheAction(name)
           before == snapshot.fields[ServerField(name, a)]
           after == call[1].out.doc.fields[ServerField(name, a)]
       IN /\ call[1].out.err = <<>>
          /\ call[1].out.text # <<>>
          /\ Len(after) = Len(before)
          /\ \A i \in 1..Len(before) :
                after[i].comment =
                   IF a \in DOMAIN topLevelArgsJsDocs /\ before[i].name \in topLevelArgsJsDocs[a]
                   THEN JsDocText(a, before[i].name, name, pluralize(name))
                   ELSE before[i].comment

C14_Witness ==
    /\ Called("Model")
    /\ TheAction(call[1].in.name) = "updateMany"
    /\ call[1].out.err = <<>>
    /\ Len(call[1].out.text[1].argsTypes) = 2

\* C19: a leaf field is rendered as a sequence iff it is a list and with the
\* null union iff it is neither required nor a list; a list never has the
\* null union.  The same holds for the wrapping of a relation's payload.
C19_LeafWrapping ==
    /\ Called("OutputField") =>
          /\ call[1].out.array = call[1].in.isList
          /\ call[1].out.nullable = (~call[1].in.isRequired /\ ~call[1].in.isList)
          /\ call[1].in.isList => ~call[1].out.nullable
    /\ Called("wrapType") =>
          /\ (call[1].out.k = "Array") = call[1].in.isList
          /\ (call[1].out.k = "OrNull") = (~call[1].in.isRequired /\ ~call[1].in.isList)
          /\ call[1].out.k = "Array" => call[1].out.of.k = "Named"

C19_Witness ==
    /\ Called("OutputField")
    /\ call[1].in.isList /\ ~call[1].in.isRequired
    /\ call[1].out.array /\ ~call[1].out.nullable

\* the null members of a rendered argument type: candidates and suffix
NullMembers(out) ==
    Cardinality({i \in 1..Len(out.types) : out.types[i] = <<"null">>})
      + (IF out.nullable THEN 1 ELSE 0)

\* C20: with a literal null among the candidate shapes of an argument no null
\* suffix is appended; without one the suffix is appended iff the argument
\* is non-required and nullable; the rendered type has at most one null.
C20_NullOnce ==
    Called("InputField") =>
       LET arg == call[1].in
           hasNull == \E i \in 1..Len(arg.inputType) : arg.inputType[i].type = <<"null">>
       IN /\ hasNull => ~call[1].out.nullable
          /\ ~hasNull => (call[1].out.nullable =
                            (~arg.inputType[1].isRequired /\ arg.inputType[1].isNullable))
          /\ NullMembers(call[1].out) <= 1

C20_Witness ==
    /\ Called("InputField")
    /\ Len(call[1].in.inputType) = 2
    /\ call[1].in.inputType[2].type = <<"null">>
    /\ ~call[1].in.inputType[1].isRequired /\ call[1].in.inputType[1].isNullable
    /\ ~call[1].out.nullable


(***************************************************************************)
(* Delegates, ordering, payload declarations: claims C15-C18               *)
(***************************************************************************)
\* C15: the delegate of every entity that has one has a count operation whose
\* argument is the find-many argument type of the entity without select and
\* include: of the members of that type, exactly the declared arguments.
C15_CountOperation ==
    \A c \in Clients :
       Generated(c) =>
          \A i \in 1..Len(TextOf(c).models) :
             LET sec == TextOf(c).models[i]
             IN findMapping(snapshot, sec.name) # <<>> =>
                  /\ sec.delegate # <<>>
                  /\ sec.delegate[1].count.from = <<"FindMany">> \o sec.name \o <<"Args">>
                  /\ \A j \in 1..Len(sec.argsTypes) :
                        sec.argsTypes[j].id = sec.delegate[1].count.from =>
                           MemberNames([members |->
                              SelectSeq(sec.argsTypes[j].members,
                                        LAMBDA m : m.name \notin sec.delegate[1].count.omit)])
                             = [k \in 1..Len(DeclaredArgs(sec.name, <<"findMany">>)) |->
                                  DeclaredArgs(sec.name, <<"findMany">>)[k].name]

C15_Witness ==
    /\ Generated(1)
    /\ HasRelation(User)
    /\ "findMany" \in MappedActions(User)
    /\ TextOf(1).models[1].delegate[1].count.omit = {"select", "include"}

\* the sections of the document in the order of the text, each with the
\* identifiers it declares and the generated identifiers it refers to
SectionRefs(sec) ==
    {sec.payload.onSelect.mapped[1].cases[k].then.id :
        k \in {x \in 1..Len(sec.payload.onSelect.mapped[1].cases) :
                 sec.payload.onSelect.mapped[1].cases[x].then.k = "Payload"}}
    \cup {sec.payload.onSelect.mapped[1].cases[k].then.of.id :
            k \in {x \in 1..Len(sec.payload.onSelect.mapped[1].cases) :
                     sec.payload.onSelect.mapped[1].cases[x].then.k # "Payload"}}
    \cup (IF sec.delegate = <<>> THEN {}
          ELSE {<<"BatchPayload">> :
                  k \in {x \in 1..Len(sec.delegate[1].operations) :
                           sec.delegate[1].operations[x].returns.k = "BatchPayload"}})

Sections(text) ==
    <<[declares |-> {text.enums[k].id : k \in 1..Len(text.enums)}, refers |-> {}]>>
    \o [i \in 1..Len(text.models) |->
          [declares |-> {d.id : d \in Range(SectionDeclarations(text.models[i]))},
           refers |-> SectionRefs(text.models[i])]]
    \o <<[declares |-> {text.inputTypes[k].id : k \in 1..Len(text.inputTypes)},
          refers |-> {}],
         [declares |-> {text.batchPayload}, refers |-> {}]>>

\* C16: no section of the document refers to an identifier that a later
\* section declares.
C16_NoForwardReference ==
    \A c \in Clients :
       Generated(c) =>
          \A i, j \in 1..Len(Sections(TextOf(c))) :
             i < j => Sections(TextOf(c))[i].refers \cap Sections(TextOf(c))[j].declares = {}

\* C17: the client class of an entity has one accessor per relation field, in
\* their order, and none for a scalar field; the accessor of a list relation
\* is typed with the related entity's find-many action, that of a single
\* relation with its find-one action.
C17_RelationAccessors ==
    (tsOut[1] # <<>> /\ tsOut[1][1].text # <<>>) =>
       \A i \in 1..Len(tsOut[1][1].text[1].models) :
          LET sec == tsOut[1][1].text[1].models[i]
              relations == SelectSeq(snapshot.models[i].fields, LAMBDA f : f.kind = "object")
          IN sec.delegate # <<>> =>
               /\ Len(sec.delegate[1].client.accessors) = Len(relations)
               /\ \A k \in 1..Len(relations) :
                     LET acc == sec.delegate[1].client.accessors[k]
                     IN /\ acc.name = relations[k].name
                        /\ acc.returns = getSelectReturnType(relations[k].type,
                              IF relations[k].isList THEN "findMany" ELSE "findOne")
                        /\ acc.returns.list = relations[k].isList
                        /\ acc.returns.plain = relations[k].type

C17_Witness ==
    /\ tsOut[1] # <<>> /\ tsOut[1][1].text # <<>>
    /\ Len(tsOut[1][1].text[1].models[1].delegate[1].client.accessors) = 2
    /\ tsOut[1][1].text[1].models[1].delegate[1].client.accessors[1].returns.list
    /\ ~tsOut[1][1].text[1].models[1].delegate[1].client.accessors[2].returns.list

\* C18: toTS returns the document for every relation graph, and the payload
\* declaration of an entity has one case per relation field of the entity,
\* each naming the related entity's payload.
C18_PayloadByName ==
    runs[1] > 0 =>
       /\ tsOut[1][1].text # <<>>
       /\ \A i \in 1..Len(tsOut[1][1].text[1].models) :
             LET cases == tsOut[1][1].text[1].models[i].payload.onSelect.mapped[1].cases
                 relations == SelectSeq(snapshot.models[i].fields, LAMBDA f : f.kind = "object")
             IN /\ Len(cases) = Len(relations)
                /\ \A k \in 1..Len(cases) :
                      Unwrapped(cases[k].then)
                        = [k |-> "Payload", id |-> getPayloadName(relations[k].type),
                           arg |-> "select"]

C18_Witness ==
    /\ runs[1] > 0 /\ tsOut[1][1].text # <<>>
    /\ \E f \in RelationsOf(snapshot, User) : f.type = User
    /\ \E f \in RelationsOf(snapshot, User) : f.type = Post
    /\ \E f \in RelationsOf(snapshot, Post) : f.type = User


(***************************************************************************)
(* Input types and enumerations: claims C21, C22 (specification SpecEmit)  *)
(***************************************************************************)
\* C21: the emitted input type has exactly one field of every name of the
\* source, that field is the rendering of the first-declared field of the
\* name, and the emitted fields stand in the order of their declaration.
C21_DedupFirstWins ==
    Called("InputType") =>
       LET fields == call[1].in.fields
           members == call[1].out.members
       IN /\ {members[i].name : i \in 1..Len(members)}
               = {fields[i].name : i \in 1..Len(fields)}
          /\ \A i, j \in 1..Len(members) : members[i].name = members[j].name => i = j
          /\ \A i \in 1..Len(members) :
                LET first == CHOOSE k \in 1..Len(fields) :
                                /\ fields[k].name = members[i].name
                                /\ \A l \in 1..(k - 1) : fields[l].name # members[i].name
                IN /\ members[i] = InputField_toTS(fields[first])
                   /\ \A j \in (i + 1)..Len(members) :
                         \E l \in (first + 1)..Len(fields) :
                            /\ fields[l].name = members[j].name
                            /\ \A m \in 1..(l - 1) : fields[m].name # members[j].name

C21_Witness ==
    /\ Called("InputType")
    /\ Len(call[1].in.fields) = 3
    /\ call[1].in.fields[1].name = "where"
    /\ call[1].in.fields[2].name = "data"
    /\ call[1].in.fields[3].name = "where"
    /\ call[1].in.fields[1] # call[1].in.fields[3]
    /\ Len(call[1].out.members) = 2

\* the members of the union type of an emitted enumeration: the type at every
\* key of the declared value set
UnionMembers(out) ==
    IF out.union.of.id = out.id /\ out.union.by.of.id = out.id
    THEN {out.members[i].value : i \in 1..Len(out.members)}
    ELSE {}

\* C22: the value set of an emitted enumeration has one member per source
\* value, in source order, each with its own name as value, and the union
\* type is the indexed access of the value set at its keys, so its members
\* are the values of the value set.
C22_EnumEmission ==
    Called("Enum") =>
       LET values == call[1].in.values
           out == call[1].out
       IN /\ Len(out.members) = Len(values)
          /\ \A i \in 1..Len(values) :
                out.members[i].key = values[i] /\ out.members[i].value = values[i]
          /\ out.union.k = "Indexed"
          /\ out.union.of = [k |-> "typeof", id |-> call[1].in.name]
          /\ out.union.by = [k |-> "keyof", of |-> [k |-> "typeof", id |-> call[1].in.name]]
          /\ UnionMembers(out) = Range(values)

C22_Witness ==
    /\ Called("Enum")
    /\ call[1].in.values = <<"USER", "ADMIN", "GUEST">>
    /\ UnionMembers(call[1].out) = {"ADMIN", "GUEST", "USER"}


(***************************************************************************)
(* Closure, fall-through, accessors: claims C23-C25                        *)
(***************************************************************************)
\* the argument-type identifiers the payload type, the delegate operations
\* and count of a section refer to
ArgsTypeRefs(sec) ==
    {sec.payload.constraint} \cup Range(sec.payload.extendsArgs)
    \cup (IF sec.delegate = <<>> THEN {}
          ELSE {sec.delegate[1].count.from}
               \cup {sec.delegate[1].operations[j].args :
                       j \in 1..Len(sec.delegate[1].operations)})

DeclaredIds(text) == {d.id : d \in Range(Declarations(text))}

\* C23: every argument-type identifier that a section of a generated
\* document refers to is declared in the document.
C23_ArgsTypesDeclared ==
    \A c \in Clients :
       Generated(c) =>
          \A i \in 1..Len(TextOf(c).models) :
             ArgsTypeRefs(TextOf(c).models[i]) \subseteq DeclaredIds(TextOf(c))


\* C24: the payload type of an entity resolves to never for the selector
\* undefined and for no other selector; for true, false, null and an
\* arguments object with neither a select nor an include key it resolves to
\* the plain value type of the entity.
C24_FallThrough ==
    resolved # <<>> =>
       LET S == resolved[1].S
           T == resolved[1].type
       IN /\ S = Lit("undefined") => T = Never
          /\ T = Never => S = Lit("undefined")
          /\ (\/ S \in {Lit("true"), Lit("false"), Lit("null")}
              \/ (S.k = "obj" /\ DOMAIN S.m \cap {"select", "include"} = {}))
                => T = Named(resolved[1].entity)

C24_Witness ==
    /\ resolved # <<>>
    /\ resolved[1].S = Lit("null")
    /\ resolved[1].type = Named(Post)

\* C25: the accessors of the generated PrismaClient class return exactly the
\* delegate interfaces that the document declares.
C25_AccessorsMatchDelegates ==
    \A c \in Clients :
       Generated(c) =>
          {TextOf(c).client.accessors[i].returns :
             i \in 1..Len(TextOf(c).client.accessors)}
            = {TextOf(c).models[i].delegate[1].id :
                 i \in {j \in 1..Len(TextOf(c).models) : TextOf(c).models[j].delegate # <<>>}}


(***************************************************************************)
(* Database creation: claims C26-C28 (specifications SpecDb, SpecDbLive)   *)
(***************************************************************************)
Logged(event) == \E i \in 1..Len(db.log) : db.log[i] = event

\* C26: createDatabase is called and the dialog is shown only after the
\* connectivity check failed with P1003; after a successful check the
\* function has returned and after a failure with another code it has thrown
\* code: message, in both cases with nothing created and no dialog; with
\* forceCreate the dialog is never shown.
C26_CreateOnlyWhenMissing ==
    /\ (Logged("createDatabase") \/ Logged("render")) =>
          /\ db.canConnect # <<>>
          /\ ~db.canConnect[1].ok
          /\ db.canConnect[1].code = "P1003"
    /\ (db.canConnect # <<>> /\ db.canConnect[1].ok) =>
          db.outcome = "returned" /\ db.log = <<>> /\ db.creation = "none"
    /\ (db.canConnect # <<>> /\ ~db.canConnect[1].ok /\ db.canConnect[1].code # "P1003") =>
          /\ db.outcome = "thrown"
          /\ db.error = <<db.canConnect[1].code, ": ", db.canConnect[1].message>>
          /\ db.log = <<>> /\ db.creation = "none"
    /\ db.forceCreate => db.dialog = "none" /\ ~Logged("render")

C26_Witness ==
    /\ db.forceCreate
    /\ db.canConnect # <<>> /\ db.canConnect[1].code = "P1003"
    /\ db.creation = "succeeded"
    /\ db.outcome = "returned"

\* C27: the promise of askToCreateDb is resolved only after Yes was chosen,
\* the createDatabase call of that choice has completed and the dialog was
\* unmounted; creating is true while that call runs; every createDatabase
\* call of the dialog follows the setCreating(true) of a Yes choice; after
\* No the process has exited with code 0 and the promise is not resolved.
C27_DialogOrdering ==
    /\ db.promise = "resolved" =>
          /\ Logged("setCreating(true)")
          /\ db.creation = "succeeded"
          /\ db.dialog = "unmounted"
          /\ \E i, j, k \in 1..Len(db.log) :
                /\ i < j /\ j < k
                /\ db.log[i] = "createDatabase"
                /\ db.log[j] = "unmount"
                /\ db.log[k] = "resolve"
    /\ (db.pc = "dialog" /\ db.creation = "running") => db.creating
    /\ db.dialog # "none" =>
          \A i \in 1..Len(db.log) :
             db.log[i] = "createDatabase" => db.log[i - 1] = "setCreating(true)"
    /\ db.choice = <<"No">> =>
          /\ db.exit = <<0>>
          /\ db.promise = "pending"
          /\ db.log[Len(db.log)] = "exit"

C27_Witness ==
    /\ db.promise = "resolved"
    /\ db.choice = <<"Yes">>
    /\ ~db.creating

\* C28: after Yes was chosen the promise of askToCreateDb is eventually
\* resolved with creating false again, unless the process exits.
C28_EventuallySettles ==
    (db.choice = <<"Yes">>) ~> ((db.promise = "resolved" /\ ~db.creating) \/ db.exit # <<>>)


(***************************************************************************)
(* Datamodel texts: claims C29, C30 (specification SpecDiff)               *)
(***************************************************************************)
Blank(line) == \A i \in 1..Len(line) : line[i] = " "

\* the lines of a text; the empty text has none
LinesOf(str) == IF str = <<>> THEN <<>> ELSE split(str)

\* the elements of lines at the indices in keep, in order
AtIndices(lines, keep) ==
    LET RECURSIVE pick(_)
        pick(i) == IF i > Len(lines) THEN <<>>
                   ELSE (IF i \in keep THEN <<lines[i]>> ELSE <<>>) \o pick(i + 1)
    IN pick(1)

\* C29: the output of trimMultiEmptyLines has the non-blank lines of the
\* input unchanged and in order, has no two blank lines in a row and does not
\* start with a blank line; a blank line of the input is kept exactly when
\* the line directly before it is not blank.
C29_BlankRunsCollapsed ==
    Called("trimMultiEmptyLines") =>
       LET in == split(call[1].in)
           out == LinesOf(call[1].out)
       IN /\ SelectSeq(out, LAMBDA l : ~Blank(l)) = SelectSeq(in, LAMBDA l : ~Blank(l))
          /\ \A i \in 1..(Len(out) - 1) : ~(Blank(out[i]) /\ Blank(out[i + 1]))
          /\ out # <<>> => ~Blank(out[1])
          /\ out = AtIndices(in, {i \in 1..Len(in) :
                                    \/ ~Blank(in[i])
                                    \/ (i > 1 /\ ~Blank(in[i - 1]))})

C29_Witness ==
    /\ Called("trimMultiEmptyLines")
    /\ split(call[1].in) = <<<<>>, <<"x">>, <<>>, <<" ">>>>
    /\ LinesOf(call[1].out) = <<<<"x">>, <<>>>>

\* the opening and the closing lines of a block
IsStart(lines, i) ==
    /\ lines[i] # <<>>
    /\ lines[i][1] \in DefaultBlocks
    /\ lines[i][Len(lines[i])] = "{"

IsEnd(lines, i) == trim(lines[i]) # <<>> /\ trim(lines[i])[Len(trim(lines[i]))] = "}"

\* an opening line with the first closing line after it
Blocks(lines) ==
    {r \in (1..Len(lines)) \X (1..Len(lines)) :
        /\ r[1] < r[2]
        /\ IsStart(lines, r[1])
        /\ IsEnd(lines, r[2])
        /\ \A j \in (r[1] + 1)..(r[2] - 1) : ~IsEnd(lines, j)}

Disjoint(R) == \A r, q \in R : r # q => (r[2] < q[1] \/ q[2] < r[1])

Outside(lines, R) ==
    AtIndices(lines, {i \in 1..Len(lines) : \A r \in R : i < r[1] \/ i > r[2]})

\* C30 as stated: the output of trimWholeBlocks on more than two lines is the
\* input without disjoint ranges of lines, each from an opening line to the
\* first closing line after it, all other lines kept in order; an input of at
\* most two lines or without a complete block is returned unchanged.
C30_OnlyWholeBlocksRemoved ==
    Called("trimWholeBlocks") =>
       LET in == split(call[1].in)
       IN IF Len(in) <= 2 \/ Blocks(in) = {} THEN call[1].out = call[1].in
          ELSE \E R \in SUBSET Blocks(in) :
                  Disjoint(R) /\ call[1].out = join(Outside(in, R))

\* the ranges removed: of the opening lines before a closing line the last
\* one opens the block
Removed(lines) ==
    {r \in Blocks(lines) : \A j \in (r[1] + 1)..(r[2] - 1) : ~IsStart(lines, j)}

\* lines without one empty first line and one empty last line
DropEdges(lines) ==
    LET rest == IF Len(lines) >= 2 /\ lines[1] = <<>> THEN Tail(lines) ELSE lines
    IN IF Len(rest) >= 2 /\ rest[Len(rest)] = <<>>
       THEN SubSeq(rest, 1, Len(rest) - 1) ELSE rest

\* C30 amended: as stated, with the ranges being the blocks that start at
\* the last opening line before their closing line, and with one empty line
\* at the start and one at the end of the remaining lines dropped.
C30_WholeBlocksAndEdgesRemoved ==
    Called("trimWholeBlocks") =>
       LET in == split(call[1].in)
       IN IF Len(in) <= 2 \/ Blocks(in) = {} THEN call[1].out = call[1].in
          ELSE /\ Disjoint(Removed(in))
               /\ Removed(in) # {}
               /\ call[1].out = join(DropEdges(Outside(in, Removed(in))))

C30_Witness ==
    /\ Called("trimWholeBlocks")
    /\ split(call[1].in) = <<<<"model", "{">>, <<"}">>, <<>>, <<"x">>>>
    /\ call[1].out = <<"x">>

====
